---- MODULE Spec2Model ----
(***************************************************************************)
(* fluture-node: the HTTP request executor (sendRequest), the redirection  *)
(* strategies and the redirect engine (followRedirectsWith) of index.js,   *)
(* as a state machine over top-level calls, runs (forks) of the Futures    *)
(* they return, transport connections and a server.                        *)
(*                                                                         *)
(* JavaScript values.  A value that may be undefined is a tuple: <<>> is   *)
(* undefined and <<v>> is the value v.  A URL string is the record of its  *)
(* parts; path "" is the spelling without a path ("http://h1"), which      *)
(* the URL class serialises as "/".  A Future value passed around as data  *)
(* (a request body) is a record whose id is its reference identity.        *)
(***************************************************************************)
EXTENDS Integers, Sequences, FiniteSets, TLC

Undefined == <<>>

Just(v) == <<v>>

\* x || d for a field whose falsy values are undefined and 0
OrElse(m, d) == IF m = <<>> \/ m = <<0>> THEN d ELSE m[1]

-----------------------------------------------------------------------------
(* Strings *)

\* Variant: the method is left as it is spelled
toUpperCaseAsSpelled(s) == s

toUpperCase(s) ==
  CASE s = "get" -> "GET"
    [] s = "post" -> "POST"
    [] s = "put" -> "PUT"
    [] OTHER -> s

toLowerCase(s) ==
  CASE s = "If-None-Match" -> "if-none-match"
    [] s = "If-Match" -> "if-match"
    [] s = "IF-MODIFIED-SINCE" -> "if-modified-since"
    [] s = "If-Unmodified-Since" -> "if-unmodified-since"
    [] s = "Cookie" -> "cookie"
    [] s = "Accept" -> "accept"
    [] OTHER -> s

-----------------------------------------------------------------------------
(* URLs: new URL (input, base).href *)

Url(protocol, host, path) == [protocol |-> protocol, host |-> host, path |-> path]

\* new URL (u).href: the serialised form always has a path
Href(u) == [u EXCEPT !.path = IF u.path = "" THEN "/" ELSE u.path]

\* A URL reference (a Location value): protocol "" marks a relative reference,
\* whose path is either path-absolute ("/a") or empty (the same document).
Ref(protocol, host, path) == [protocol |-> protocol, host |-> host, path |-> path]

RelRef(path) == Ref("", "", path)

\* new URL (input, base).href
Resolve(input, base) ==
  IF input.protocol # ""
  THEN Href(input)
  ELSE IF input.path = ""
       THEN Href(base)
       ELSE Url(base.protocol, base.host, input.path)

-----------------------------------------------------------------------------
(* Request and Response *)

Request(options, url, body) == [options |-> options, url |-> url, body |-> body]

\* Variant: the Response refers to the request rebuilt from the parsed URL
ResponseNormalised(request, message) ==
  [request |-> [request EXCEPT !.url = Href(@)], message |-> message]

Response(request, message) == [request |-> request, message |-> message]

\* The options object {}: every field undefined
EmptyOptions ==
  [agent |-> Undefined, createConnection |-> Undefined, defaultPort |-> Undefined,
   family |-> Undefined, headers |-> Undefined, insecureHTTPParser |-> Undefined,
   localAddress |-> Undefined, lookup |-> Undefined, maxHeaderSize |-> Undefined,
   method |-> Undefined, setHost |-> Undefined, socketPath |-> Undefined,
   timeout |-> Undefined]

\* {} as a headers object
EmptyHeaders == [n \in {} |-> ""]

\* A body Future.  id is the reference identity of the Future value; mode is
\* how a run of it settles: "sync" resolves with a new stream during the fork
\* and "fail" rejects during the fork; "async" resolves and "asyncFail" rejects
\* some time after the fork.
Body(id, content, mode) == [id |-> id, content |-> content, mode |-> mode]

\* streamOf (Buffer.alloc (0)), one module-level Future value
emptyStream == Body("emptyStream", "", "sync")

DefaultMaxHeaderSize == 16384

\* the default of options.lookup: the lookup function of the dns module
DnsLookup == "dns.lookup"

cleanRequestOptions(request) ==
  LET options == request.options IN
  [agent |-> options.agent,
   createConnection |-> options.createConnection,
   defaultPort |->
     IF options.defaultPort # Undefined /\ options.defaultPort # <<0>>
     THEN options.defaultPort
     ELSE IF options.agent = Undefined THEN Undefined
          ELSE options.agent[1].defaultPort,
   family |-> options.family,
   headers |-> IF options.headers = Undefined THEN EmptyHeaders
               ELSE options.headers[1],
   insecureHTTPParser |-> (options.insecureHTTPParser = <<"true">>),
   localAddress |-> options.localAddress,
   lookup |-> IF options.lookup = Undefined THEN DnsLookup ELSE options.lookup[1],
   maxHeaderSize |-> OrElse(options.maxHeaderSize, DefaultMaxHeaderSize),
   method |-> toUpperCase(IF options.method = Undefined \/ options.method = <<"">>
                          THEN "GET" ELSE options.method[1]),
   setHost |-> (options.setHost # <<"false">>),
   socketPath |-> options.socketPath,
   timeout |-> options.timeout]

-----------------------------------------------------------------------------
(* Messages and status dispatch *)

\* An IncomingMessage: the status code and the location header
Message(statusCode, location) == [statusCode |-> statusCode, location |-> location]

\* A strategy or handler is a name; Apply(handler, res) applies it
RECURSIVE Apply(_, _)

\* Variant: the default handler is applied whatever the status code
matchStatusDefaultOnly(f, fs, res) == Apply(f, res)

\* matchStatus (f) (fs) (res): fs maps status codes to handlers, f is the default
matchStatus(f, fs, res) ==
  LET statusCode == res.message.statusCode
  IN Apply(IF statusCode \in DOMAIN fs THEN fs[statusCode] ELSE f, res)

\* Variant: the Location is never looked at
mergeUrlsKeepsBase(base, input) == base

\* mergeUrls (base) (input)
mergeUrls(base, input) ==
  IF input # Undefined THEN Resolve(input[1], base) ELSE base

redirectAnyRequest(response) ==
  LET location == response.message.location
      original == response.request
      oldUrl == original.url
      newUrl == mergeUrls(oldUrl, location)
  IN Request(original.options, newUrl, original.body)

\* Variant: the method is compared as it is spelled in the options
redirectIfGetMethodAsSpelled(response) ==
  LET method == response.request.options.method
  IN IF method = Undefined \/ method = Just("GET")
     THEN redirectAnyRequest(response)
     ELSE response.request

redirectIfGetMethod(response) ==
  LET method == cleanRequestOptions(response.request).method
  IN IF method = "GET" THEN redirectAnyRequest(response) ELSE response.request

\* Variant: the body of the original request is sent again
redirectUsingGetMethodKeepsBody(response) ==
  LET original == response.request
      options == [original.options EXCEPT !.method = Just("GET")]
      request == Request(options, original.url, original.body)
  IN redirectAnyRequest(Response(request, response.message))

redirectUsingGetMethod(response) ==
  LET original == response.request
      options == [original.options EXCEPT !.method = Just("GET")]
      request == Request(options, original.url, emptyStream)
  IN redirectAnyRequest(Response(request, response.message))

conditionHeaders == {"if-match", "if-modified-since", "if-none-match", "if-unmodified-since"}

\* Variant: the header names are compared as they are spelled
retryWithoutConditionAsSpelled(response) ==
  LET original == response.request
      options == original.options
      method == cleanRequestOptions(original).method
      headers == IF options.headers = Undefined THEN EmptyHeaders ELSE options.headers[1]
      filteredHeaders == {name \in DOMAIN headers : name \notin conditionHeaders}
      request == Request([options EXCEPT !.headers =
                            Just([name \in filteredHeaders |-> headers[name]])],
                         original.url, original.body)
  IN IF method = "GET" THEN request ELSE original

retryWithoutCondition(response) ==
  LET original == response.request
      options == original.options
      method == cleanRequestOptions(original).method
      headers == IF options.headers = Undefined THEN EmptyHeaders ELSE options.headers[1]
      filteredHeaders == {name \in DOMAIN headers : toLowerCase(name) \notin conditionHeaders}
      request == Request([options EXCEPT !.headers =
                            Just([name \in filteredHeaders |-> headers[name]])],
                         original.url, original.body)
  IN IF method = "GET" THEN request ELSE original

\* Variant: the default policy also retries on 304
defaultRedirectionTableWith304 ==
  (301 :> "redirectIfGetMethod") @@ (302 :> "redirectIfGetMethod") @@
  (303 :> "redirectUsingGetMethod") @@ (304 :> "retryWithoutCondition") @@
  (305 :> "redirectAnyRequest") @@ (307 :> "redirectIfGetMethod")

\* The handler tables of the two policies, by handler name
defaultRedirectionTable ==
  (301 :> "redirectIfGetMethod") @@ (302 :> "redirectIfGetMethod") @@
  (303 :> "redirectUsingGetMethod") @@ (305 :> "redirectAnyRequest") @@
  (307 :> "redirectIfGetMethod")

aggressiveRedirectionTable ==
  (301 :> "redirectAnyRequest") @@ (302 :> "redirectAnyRequest") @@
  (303 :> "redirectUsingGetMethod") @@ (304 :> "retryWithoutCondition") @@
  (305 :> "redirectAnyRequest") @@ (307 :> "redirectAnyRequest")

\* The request the test suite's custom strategy always answers
EchoUrl == Url("http:", "h1", "/echo")

EchoRequest == Request(EmptyOptions, EchoUrl, emptyStream)

defaultRedirectionPolicy(response) ==
  matchStatus("Response.request", defaultRedirectionTable, response)

aggressiveRedirectionPolicy(response) ==
  matchStatus("Response.request", aggressiveRedirectionTable, response)

\* resolve (x) and reject (x): Futures that are settled from the start
resolve(x) == [pc |-> "resolved", value |-> x]

reject(x) == [pc |-> "rejected", value |-> x]

\* Variant: every status code is accepted
acceptStatusAny(code, response) == resolve(response)

\* acceptStatus (code) (response)
acceptStatus(code, response) == matchStatus("reject", (code :> "resolve"), response)

Apply(handler, response) ==
  CASE handler = "Response.request" -> response.request
    [] handler = "resolve" -> resolve(response)
    [] handler = "reject" -> reject(response)
    [] handler = "redirectAnyRequest" -> redirectAnyRequest(response)
    [] handler = "redirectIfGetMethod" -> redirectIfGetMethod(response)
    [] handler = "redirectUsingGetMethod" -> redirectUsingGetMethod(response)
    [] handler = "retryWithoutCondition" -> retryWithoutCondition(response)
    [] handler = "defaultRedirectionPolicy" -> defaultRedirectionPolicy(response)
    [] handler = "aggressiveRedirectionPolicy" -> aggressiveRedirectionPolicy(response)
    [] handler = "echoStrategy" -> EchoRequest

\* The handlers a dispatcher ends up calling, in order: a policy is itself
\* a matchStatus over its table, any other handler is called as it is
RECURSIVE Called(_, _)
Called(handler, response) ==
  LET statusCode == response.message.statusCode
      Over(f, fs) == Called(IF statusCode \in DOMAIN fs THEN fs[statusCode] ELSE f, response)
  IN CASE handler = "defaultRedirectionPolicy" ->
            Over("Response.request", defaultRedirectionTable)
       [] handler = "aggressiveRedirectionPolicy" ->
            Over("Response.request", aggressiveRedirectionTable)
       [] OTHER -> <<handler>>

\* Variant: the bodies are compared by their content
requestsEquivalentByContent(left, right) ==
  /\ cleanRequestOptions(left) = cleanRequestOptions(right)
  /\ left.url = right.url
  /\ left.body.content = right.body.content
  /\ left.body.mode = right.body.mode

requestsEquivalent(left, right) ==
  /\ cleanRequestOptions(left) = cleanRequestOptions(right)
  /\ left.url = right.url
  /\ left.body.id = right.body.id

-----------------------------------------------------------------------------
(* Errors *)

\* An Error value: new Error (message) has no code; transport errors carry one
Error(message) == [message |-> message, code |-> Undefined]

TransportError(message, code) == [message |-> message, code |-> Just(code)]

\* Variant: every scheme is served by the http module
getRequestModuleAny(protocol) == Just("http")

\* getRequestModule (protocol): the module name, or undefined for the default case
getRequestModule(protocol) ==
  CASE protocol = "https:" -> Just("https")
    [] protocol = "http:" -> Just("http")
    [] OTHER -> Undefined

UnsupportedProtocol(protocol) == Error("Unsupported protocol '" \o protocol \o "'")

\* Variant: the cancel function aborts without removing the listener
AbortKeepsListener(conn) == [conn EXCEPT !.aborted = TRUE]

\* Variant: the cancel function removes the listener and leaves the connection
AbortOnlyUnlistens(conn) == [conn EXCEPT !.listener = FALSE]

\* Variant: the failure of the hop is passed on as it is
AfterRedirectUnwrapped(e) == e

\* mapRej (e => new Error ('After redirect: ' + e.message))
AfterRedirect(e) == Error("After redirect: " \o e.message)

-----------------------------------------------------------------------------
(* The redirect engine: one attempt *)

\* Variant: the scan starts below the entry that was just pushed
SeenBeforeSkipsLatest(seenNow, i, nextRequest) ==
  \E j \in 1..(i - 1) : requestsEquivalent(seenNow[j], nextRequest)

\* Variant: only the entry that was just pushed is compared
SeenBeforeLatestOnly(seenNow, i, nextRequest) ==
  i >= 1 /\ requestsEquivalent(seenNow[i], nextRequest)

\* Variant: only the oldest entry is compared
SeenBeforeFirstOnly(seenNow, i, nextRequest) ==
  i >= 1 /\ requestsEquivalent(seenNow[1], nextRequest)

\* for (let i = seen.length - 1; i >= 0; i -= 1) if (requestsEquivalent ...) return
RECURSIVE SeenBefore(_, _, _)
SeenBefore(seenNow, i, nextRequest) ==
  IF i < 1 THEN FALSE
  ELSE IF requestsEquivalent(seenNow[i], nextRequest) THEN TRUE
       ELSE SeenBefore(seenNow, i - 1, nextRequest)

\* resolve (response)
Resolved(response) == [kind |-> "resolve", response |-> response]

\* Variant: the continuation is given the max of the attempt itself
HopKeepsMax(nextRequest, max) ==
  [kind |-> "hop", request |-> nextRequest, max |-> max + 1]

\* sendRequest (nextRequest) .pipe (mapRej ...) .pipe (chain (followUp (max)))
Hop(nextRequest, max) == [kind |-> "hop", request |-> nextRequest, max |-> max]

\* Variant: the attempt is given up only when max is below zero
followUpBelowZero(strategy, seenNow, max, response) ==
  IF max < 0
  THEN [future |-> Resolved(response), seen |-> seenNow, invoked |-> 0]
  ELSE LET pushed == Append(seenNow, response.request)
           nextRequest == Apply(strategy, response)
       IN IF SeenBefore(pushed, Len(pushed), nextRequest)
          THEN [future |-> Resolved(response), seen |-> pushed, invoked |-> 1]
          ELSE [future |-> Hop(nextRequest, max - 1), seen |-> pushed, invoked |-> 1]

\* followUp (max) (response) with the strategy and the seen array of its call:
\* the Future it returns, the seen array afterwards, whether the strategy ran
followUp(strategy, seenNow, max, response) ==
  IF max < 1
  THEN [future |-> Resolved(response), seen |-> seenNow, invoked |-> 0]
  ELSE LET pushed == Append(seenNow, response.request)
           nextRequest == Apply(strategy, response)
       IN IF SeenBefore(pushed, Len(pushed), nextRequest)
          THEN [future |-> Resolved(response), seen |-> pushed, invoked |-> 1]
          ELSE [future |-> Hop(nextRequest, max - 1), seen |-> pushed, invoked |-> 1]

-----------------------------------------------------------------------------
(* State *)

Calls == {"c1", "c2"}

Runs == {"r1", "r2"}

VARIABLES
  input,          \* per call: the arguments strategy, max, response
  active,         \* the runs <<call, run>> the environment may start
  server,         \* what the server and the transport may answer
  called,         \* per call: followRedirectsWith has been called
  seen,           \* per call: the seen array of its closure
  task,           \* per call: the Future the call returned
  strategyCalls,  \* per call: how often the strategy was applied
  run,            \* per call and run: one fork of the call's Future
  listeners,      \* per event name: the listeners of the event emitter, in order
  emitted,        \* the events the emitter has emitted so far
  futures,        \* per run: one fork of once (event) (emitter) or buffer (stream)
  applied         \* the last application of a handler to a response, and what it returned

redirectVars == <<input, active, server, called, seen, task, strategyCalls, run>>

emitterVars == <<listeners, emitted, futures>>

vars == <<input, active, server, called, seen, task, strategyCalls, run,
          listeners, emitted, futures, applied>>

Last(q) == q[Len(q)]

\* A fork that has not started
NoRun ==
  [pc |-> "unforked", max |-> 0, sent |-> <<>>, conns |-> <<>>, bodyRuns |-> 0,
   result |-> Undefined, settles |-> 0, cancelled |-> FALSE, direct |-> FALSE]

\* No Future yet
NoTask == [kind |-> "none"]

\* No fork of once or buffer yet
NoFuture ==
  [pc |-> "idle", kind |-> "none", event |-> "", result |-> Undefined, settles |-> 0,
   chunks |-> <<>>, calls |-> 0, start |-> 0, stop |-> 0,
   via |-> "none", arg |-> Undefined, out |-> [pc |-> "pending", value |-> Undefined],
   job |-> "none"]

\* The names of the events of the emitter
Events == {"error", "test", "answer", "data", "end"}

NoListeners == [name \in Events |-> <<>>]

\* No handler has been applied
NoApplication == [fn |-> "none"]

NothingApplied == applied = NoApplication

\* The event emitter is not part of the scenario
EmitterUnused ==
  /\ listeners = NoListeners
  /\ emitted = <<>>
  /\ futures = [r \in Runs |-> NoFuture]

-----------------------------------------------------------------------------
(* sendRequest inside a run *)

\* The outer continuations of the run: fork's resolve and reject callbacks
ResolveRun(rn, response) ==
  [rn EXCEPT !.pc = "resolved", !.result = Just(response), !.settles = @ + 1]

\* Variant: the failure is wrapped wherever sendRequest was forked
RejectRunWrapped(rn, e) ==
  [rn EXCEPT !.pc = "rejected", !.result = Just(AfterRedirect(e)), !.settles = @ + 1]

\* mapRej applied n times
RECURSIVE AfterRedirects(_, _)
AfterRedirects(e, n) == IF n < 1 THEN e ELSE AfterRedirects(AfterRedirect(e), n - 1)

\* Variant: mapRej follows chain, so every enclosing hop wraps the failure
RejectRunNested(rn, e) ==
  [rn EXCEPT !.pc = "rejected",
             !.result = Just(IF rn.direct THEN e ELSE AfterRedirects(e, Len(rn.sent))),
             !.settles = @ + 1]

\* A hop rejects through mapRej; sendRequest forked by itself rejects with e
RejectRun(rn, e) ==
  [rn EXCEPT !.pc = "rejected",
             !.result = Just(IF rn.direct THEN e ELSE AfterRedirect(e)),
             !.settles = @ + 1]

\* The settle guard of a running Future: once it has settled or was cancelled,
\* the rej and res given to its computation do nothing
Close(conn) == [conn EXCEPT !.open = FALSE]

\* Variant: a second connection is opened for the same request right away
ConnectSpeculative(rn, request) ==
  LET conn == [request |-> request,
               stream |-> [body |-> request.body.id, fork |-> rn.bodyRuns],
               listener |-> TRUE, open |-> TRUE, aborted |-> FALSE,
               response |-> Undefined, error |-> Undefined]
  IN [rn EXCEPT !.pc = "inflight", !.conns = Append(Append(@, conn), conn)]

\* Variant: the connection is opened and piped, onResponse is not registered
ConnectUnheard(rn, request) ==
  [rn EXCEPT
     !.pc = "inflight",
     !.conns = Append(@, [request |-> request,
                          stream |-> [body |-> request.body.id, fork |-> rn.bodyRuns],
                          listener |-> FALSE, open |-> TRUE, aborted |-> FALSE,
                          response |-> Undefined, error |-> Undefined])]

\* makeRequest (lib) (stream): lib.request, req.once ('response', onResponse),
\* pipeline (stream, req, ...).  listener: onResponse is registered on req;
\* open: the Future around the connection can still settle; response and error:
\* what the transport has reported on the connection so far.
Connect(rn, request) ==
  [rn EXCEPT
     !.pc = "inflight",
     !.conns = Append(@, [request |-> request,
                          stream |-> [body |-> request.body.id, fork |-> rn.bodyRuns],
                          listener |-> TRUE, open |-> TRUE, aborted |-> FALSE,
                          response |-> Undefined, error |-> Undefined])]

\* The error a failing body Future rejects with
BodyError == TransportError("ENOENT: no such file", "ENOENT")

\* Variant: the stream of the first run of the body Future is kept for every send
sendRequestReusesStream(rn, request, max) ==
  LET issued == [rn EXCEPT !.sent = Append(@, request), !.max = max]
      forked == [issued EXCEPT !.bodyRuns = 1]
      conn == [request |-> request, stream |-> [body |-> request.body.id, fork |-> 1],
               listener |-> TRUE, open |-> TRUE, aborted |-> FALSE,
               response |-> Undefined, error |-> Undefined]
  IN IF request.url.protocol \notin {"http:", "https:"}
     THEN [issued EXCEPT !.pc = "rejected", !.settles = @ + 1,
                         !.result = Just(IF rn.direct
                                         THEN Error("Unsupported protocol '" \o request.url.protocol \o "'")
                                         ELSE Error("After redirect: Unsupported protocol '" \o request.url.protocol \o "'"))]
     ELSE CASE request.body.mode = "fail" ->
                 [forked EXCEPT !.pc = "rejected", !.settles = @ + 1,
                                !.result = Just(IF rn.direct
                                                THEN [message |-> "ENOENT: no such file", code |-> <<"ENOENT">>]
                                                ELSE Error("After redirect: ENOENT: no such file"))]
            [] request.body.mode = "sync" ->
                 [forked EXCEPT !.pc = "inflight", !.conns = Append(@, conn)]
            [] OTHER -> [forked EXCEPT !.pc = "body"]

\* Variant: lib.request is called and onResponse registered when sendRequest
\* is forked, before the body Future has resolved
sendRequestConnectsFirst(rn, request, max) ==
  LET issued == [rn EXCEPT !.sent = Append(@, request), !.max = max]
      forked == [issued EXCEPT !.bodyRuns = @ + 1]
  IN IF getRequestModule(request.url.protocol) = Undefined
     THEN RejectRun(issued, UnsupportedProtocol(request.url.protocol))
     ELSE CASE request.body.mode = "fail" -> RejectRun(forked, BodyError)
            [] request.body.mode = "sync" -> Connect(forked, request)
            [] OTHER -> [Connect(forked, request) EXCEPT !.pc = "body"]

\* Forking sendRequest (request), as far as it runs synchronously; max is the
\* argument of the followUp that continues after it
sendRequest(rn, request, max) ==
  LET issued == [rn EXCEPT !.sent = Append(@, request), !.max = max]
      forked == [issued EXCEPT !.bodyRuns = @ + 1]
  IN IF getRequestModule(request.url.protocol) = Undefined
     THEN RejectRun(issued, UnsupportedProtocol(request.url.protocol))
     ELSE CASE request.body.mode = "fail" -> RejectRun(forked, BodyError)
            [] request.body.mode = "sync" -> Connect(forked, request)
            [] OTHER -> [forked EXCEPT !.pc = "body"]

\* sendRequest (request), forked as it is
Send(request) == [kind |-> "send", request |-> request]

\* Running the Future that followUp returned, or the one sendRequest returned
Interpret(rn, future) ==
  CASE future.kind = "resolve" -> ResolveRun(rn, future.response)
    [] future.kind = "hop" -> sendRequest(rn, future.request, future.max)
    [] future.kind = "send" ->
         sendRequest([rn EXCEPT !.direct = TRUE], future.request, 0)

\* What the server sees of a request
Wire(request) ==
  LET cleaned == cleanRequestOptions(request)
  IN [method |-> cleaned.method, url |-> Href(request.url),
      headers |-> cleaned.headers, body |-> request.body.content]

\* The first thing the transport reports on a live connection is the server's
\* answer; a deterministic server answers equal requests equally
Answers(conn) == conn.response = Undefined /\ conn.error = Undefined /\ ~conn.aborted

ServerAllows(conn, outcome) ==
  (server.det /\ Answers(conn) /\ Wire(conn.request) \in DOMAIN server.table)
    => server.table[Wire(conn.request)] = outcome

ServerAfter(conn, outcome) ==
  IF server.det /\ Answers(conn) /\ Wire(conn.request) \notin DOMAIN server.table
  THEN [server EXCEPT !.table = @ @@ (Wire(conn.request) :> outcome)]
  ELSE server

\* Variant: one array for all calls
SeenOfShared(c) == seen["c1"] \o seen["c2"]

\* const seen = []: the array of the closure of one call
SeenOf(c) == seen[c]

-----------------------------------------------------------------------------
(* Actions *)

\* followRedirectsWith (strategy) (max) (response): a new seen array, then
\* followUp (max) (response), evaluated during the call
Call(c) ==
  /\ ~called[c]
  /\ \E r \in Runs : <<c, r>> \in active
  /\ LET f == followUp(input[c].strategy, <<>>, input[c].max, input[c].response)
     IN /\ called' = [called EXCEPT ![c] = TRUE]
        /\ seen' = [seen EXCEPT ![c] = f.seen]
        /\ task' = [task EXCEPT ![c] = f.future]
        /\ strategyCalls' = [strategyCalls EXCEPT ![c] = f.invoked]
  /\ UNCHANGED <<input, active, server, run>>
  /\ UNCHANGED <<emitterVars, applied>>

\* sendRequest (request): the Future is built, nothing runs yet
CallSend(c, request) ==
  /\ ~called[c]
  /\ \E r \in Runs : <<c, r>> \in active
  /\ called' = [called EXCEPT ![c] = TRUE]
  /\ task' = [task EXCEPT ![c] = Send(request)]
  /\ UNCHANGED <<input, active, server, seen, strategyCalls, run>>
  /\ UNCHANGED <<emitterVars, applied>>

\* fork (rej) (res) (task)
Fork(c, r) ==
  /\ called[c]
  /\ <<c, r>> \in active
  /\ run[c][r].pc = "unforked"
  /\ run' = [run EXCEPT ![c][r] = Interpret(@, task[c])]
  /\ UNCHANGED <<input, active, server, called, seen, task, strategyCalls>>
  /\ UNCHANGED <<emitterVars, applied>>

\* The body Future of the request being sent resolves with its stream
BodyResolves(c, r) ==
  /\ run[c][r].pc = "body"
  /\ Last(run[c][r].sent).body.mode = "async"
  /\ run' = [run EXCEPT ![c][r] = Connect(@, Last(@.sent))]
  /\ UNCHANGED <<input, active, server, called, seen, task, strategyCalls>>
  /\ UNCHANGED <<emitterVars, applied>>

\* The body Future of the request being sent rejects
BodyRejects(c, r) ==
  /\ run[c][r].pc = "body"
  /\ Last(run[c][r].sent).body.mode = "asyncFail"
  /\ run' = [run EXCEPT ![c][r] = RejectRun(@, BodyError)]
  /\ UNCHANGED <<input, active, server, called, seen, task, strategyCalls>>
  /\ UNCHANGED <<emitterVars, applied>>

\* The connection emits 'response': onResponse, if still registered, calls res,
\* which (if the Future is still open) continues with chain (followUp (max)),
\* or resolves the run when sendRequest was forked by itself
EmitResponse(c, r, k, message) ==
  LET rn == run[c][r]
      conn == rn.conns[k]
      heard == [rn EXCEPT !.conns[k].response = Just(message),
                          !.conns[k].listener = FALSE]
      settled == [heard EXCEPT !.conns[k] = Close(@)]
      f == IF rn.direct
           THEN [future |-> Resolved(Response(conn.request, message)),
                 seen |-> SeenOf(c), invoked |-> 0]
           ELSE followUp(input[c].strategy, SeenOf(c), rn.max,
                         Response(conn.request, message))
  IN /\ conn.response = Undefined
     /\ conn.error = Undefined
     /\ ServerAllows(conn, [kind |-> "response", message |-> message])
     /\ server' = ServerAfter(conn, [kind |-> "response", message |-> message])
     /\ IF conn.listener /\ conn.open
        THEN /\ run' = [run EXCEPT ![c][r] = Interpret(settled, f.future)]
             /\ seen' = [seen EXCEPT ![c] = f.seen]
             /\ strategyCalls' = [strategyCalls EXCEPT ![c] = @ + f.invoked]
        ELSE /\ run' = [run EXCEPT ![c][r] = heard]
             /\ UNCHANGED <<seen, strategyCalls>>
     /\ UNCHANGED <<input, active, called, task>>
     /\ UNCHANGED <<emitterVars, applied>>

\* The pipeline callback runs with an error: rej (e), which (if the Future is
\* still open) rejects the run through mapRej
EmitError(c, r, k, e) ==
  LET rn == run[c][r]
      conn == rn.conns[k]
      failed == [rn EXCEPT !.conns[k].error = Just(e)]
      settled == [failed EXCEPT !.conns[k] = Close(@)]
  IN /\ conn.error = Undefined
     /\ ServerAllows(conn, [kind |-> "error", error |-> e])
     /\ server' = ServerAfter(conn, [kind |-> "error", error |-> e])
     /\ run' = [run EXCEPT ![c][r] = IF conn.open THEN RejectRun(settled, e) ELSE failed]
     /\ UNCHANGED <<input, active, called, seen, task, strategyCalls>>
     /\ UNCHANGED <<emitterVars, applied>>

\* The cancel function of sendRequest: req.removeListener, req.abort
Abort(conn) == [conn EXCEPT !.listener = FALSE, !.aborted = TRUE]

\* The cancel function fork returned is called
Cancel(c, r) ==
  LET rn == run[c][r]
      noted == [rn EXCEPT !.cancelled = TRUE]
  IN /\ rn.pc # "unforked"
     /\ ~rn.cancelled
     /\ run' = [run EXCEPT ![c][r] =
                  CASE rn.pc = "inflight" ->
                         [noted EXCEPT !.pc = "cancelled",
                                       !.conns[Len(rn.conns)] = Close(Abort(@))]
                    [] rn.pc = "body" -> [noted EXCEPT !.pc = "cancelled"]
                    [] OTHER -> noted]
     /\ UNCHANGED <<input, active, server, called, seen, task, strategyCalls>>
     /\ UNCHANGED <<emitterVars, applied>>

Next ==
  \/ \E c \in Calls : Call(c)
  \/ \E c \in Calls, r \in Runs : Fork(c, r)
  \/ \E c \in Calls, r \in Runs : BodyResolves(c, r)
  \/ \E c \in Calls, r \in Runs : BodyRejects(c, r)
  \/ \E c \in Calls, r \in Runs :
       \E k \in 1..Len(run[c][r].conns), m \in server.messages :
         EmitResponse(c, r, k, m)
  \/ \E c \in Calls, r \in Runs :
       \E k \in 1..Len(run[c][r].conns), e \in server.errors :
         EmitError(c, r, k, e)
  \/ \E c \in Calls, r \in Runs : Cancel(c, r)

-----------------------------------------------------------------------------
(* Inputs *)

\* Largest max given to followRedirectsWith
MaxMax == 2

Maxes == -1..MaxMax

UrlA == Url("http:", "h1", "/a")

UrlB == Url("http:", "h1", "/b")

\* "http://h1": a URL spelled without its path
UrlBare == Url("http:", "h1", "")

GetA == Request(EmptyOptions, UrlA, emptyStream)

GetBare == Request([EmptyOptions EXCEPT !.method = Just("get")], UrlBare, emptyStream)

PostA ==
  Request([EmptyOptions EXCEPT !.method = Just("POST")], UrlA, Body("b1", "test", "sync"))

PostAsyncA ==
  Request([EmptyOptions EXCEPT !.method = Just("post")], UrlA, Body("b2", "test", "async"))

ConditionalGetA ==
  Request([EmptyOptions EXCEPT
             !.headers = Just(("If-None-Match" :> "x") @@ ("Accept" :> "y"))],
          UrlA, emptyStream)

GetUnreadable == Request(EmptyOptions, UrlB, Body("b3", "", "fail"))

PutLateUnreadable ==
  Request([EmptyOptions EXCEPT !.method = Just("put")], UrlB, Body("b4", "", "asyncFail"))

SampleRequests ==
  {GetA, GetBare, PostA, PostAsyncA, ConditionalGetA, GetUnreadable, PutLateUnreadable}

SampleLocations ==
  {Undefined, Just(RelRef("/a")), Just(RelRef("/b")), Just(RelRef("")),
   Just(Ref("ftp:", "h2", "/a"))}

SampleStatuses == {200, 301, 303, 304, 305}

SampleMessages == {Message(s, l) : s \in SampleStatuses, l \in SampleLocations}

SampleErrors == {TransportError("connect ECONNREFUSED", "ECONNREFUSED")}

SampleStrategies ==
  {"defaultRedirectionPolicy", "aggressiveRedirectionPolicy", "Response.request",
   "echoStrategy"}

Inputs ==
  [strategy : SampleStrategies, max : Maxes,
   response : {Response(q, m) : q \in SampleRequests, m \in SampleMessages}]

\* A server that may answer anything in the samples, and one that moreover
\* answers equal requests equally
AnyServer ==
  [det |-> FALSE, messages |-> SampleMessages, errors |-> SampleErrors, table |-> <<>>]

DeterministicServer == [AnyServer EXCEPT !.det = TRUE]

\* One call, forked once
Init ==
  /\ \E i \in Inputs : input = [c \in Calls |-> i]
  /\ active = {<<"c1", "r1">>}
  /\ server = AnyServer
  /\ called = [c \in Calls |-> FALSE]
  /\ seen = [c \in Calls |-> <<>>]
  /\ task = [c \in Calls |-> NoTask]
  /\ strategyCalls = [c \in Calls |-> 0]
  /\ run = [c \in Calls |-> [r \in Runs |-> NoRun]]
  /\ EmitterUnused
  /\ NothingApplied

Spec == Init /\ [][Next]_vars

\* Every request that was issued is answered: the transport reports a response
\* or an error on a connection that is open and not aborted, and a pending
\* body Future settles
Answer(c, r) ==
  \E k \in 1..Len(run[c][r].conns) :
    /\ Answers(run[c][r].conns[k])
    /\ \/ \E m \in server.messages : EmitResponse(c, r, k, m)
       \/ \E e \in server.errors : EmitError(c, r, k, e)

BodySettles(c, r) == BodyResolves(c, r) \/ BodyRejects(c, r)

RequestsSettle ==
  \A c \in Calls, r \in Runs : WF_vars(Answer(c, r)) /\ WF_vars(BodySettles(c, r))

SpecLive == Init /\ [][Next]_vars /\ RequestsSettle

\* Redirect answers that lead from one of the sample URLs to another
LoopMessages ==
  {Message(s, l) : s \in {200, 301}, l \in {Just(RelRef("/a")), Just(RelRef("/b"))}}

LoopServer == [DeterministicServer EXCEPT !.messages = LoopMessages]

LoopResponses ==
  {Response(q, Message(301, l)) :
     q \in {GetBare, PostAsyncA, PutLateUnreadable},
     l \in {Just(RelRef("/a")), Just(RelRef("/b"))}}

\* Largest max when the Future of one call is forked twice
ForkMax == 3

ForkInputs ==
  [strategy : {"defaultRedirectionPolicy", "aggressiveRedirectionPolicy"},
   max : 1..ForkMax, response : LoopResponses]

\* One call, its Future forked twice, a deterministic server
InitFork ==
  /\ \E i \in ForkInputs : input = [c \in Calls |-> i]
  /\ active = {<<"c1", "r1">>, <<"c1", "r2">>}
  /\ server = LoopServer
  /\ called = [c \in Calls |-> FALSE]
  /\ seen = [c \in Calls |-> <<>>]
  /\ task = [c \in Calls |-> NoTask]
  /\ strategyCalls = [c \in Calls |-> 0]
  /\ run = [c \in Calls |-> [r \in Runs |-> NoRun]]
  /\ EmitterUnused
  /\ NothingApplied

SpecFork == InitFork /\ [][Next]_vars

\* Largest max when two calls run side by side
TwoMax == 2

TwoInputs ==
  [strategy : {"aggressiveRedirectionPolicy"}, max : 1..TwoMax, response : LoopResponses]

\* Two calls, each forked once, a deterministic server
InitTwo ==
  /\ input \in [Calls -> TwoInputs]
  /\ active = {<<"c1", "r1">>, <<"c2", "r1">>}
  /\ server = LoopServer
  /\ called = [c \in Calls |-> FALSE]
  /\ seen = [c \in Calls |-> <<>>]
  /\ task = [c \in Calls |-> NoTask]
  /\ strategyCalls = [c \in Calls |-> 0]
  /\ run = [c \in Calls |-> [r \in Runs |-> NoRun]]
  /\ EmitterUnused
  /\ NothingApplied

SpecTwo == InitTwo /\ [][Next]_vars

\* Requests for sendRequest by itself: the samples, and URLs of other schemes
FtpLocal == Request(EmptyOptions, Url("ftp:", "localhost", ""), emptyStream)

PostFile ==
  Request([EmptyOptions EXCEPT !.method = Just("POST")], Url("file:", "", "/tmp/x"),
          Body("b5", "test", "sync"))

HttpsLocal == Request(EmptyOptions, Url("https:", "localhost", ""), emptyStream)

SendRequests == SampleRequests \cup {FtpLocal, PostFile, HttpsLocal}

SendInputs ==
  [strategy : {"defaultRedirectionPolicy", "echoStrategy"}, max : {MaxMax},
   response : {Response(q, Message(305, Just(RelRef("/b")))) : q \in {PostA, GetBare}}]

\* One call of sendRequest or of followRedirectsWith, forked once
InitSend ==
  /\ \E i \in SendInputs : input = [c \in Calls |-> i]
  /\ active = {<<"c1", "r1">>}
  /\ server = AnyServer
  /\ called = [c \in Calls |-> FALSE]
  /\ seen = [c \in Calls |-> <<>>]
  /\ task = [c \in Calls |-> NoTask]
  /\ strategyCalls = [c \in Calls |-> 0]
  /\ run = [c \in Calls |-> [r \in Runs |-> NoRun]]
  /\ EmitterUnused
  /\ NothingApplied

NextSend ==
  \/ \E c \in Calls, q \in SendRequests : CallSend(c, q)
  \/ \E c \in Calls : Call(c)
  \/ \E c \in Calls, r \in Runs : Fork(c, r)
  \/ \E c \in Calls, r \in Runs : BodyResolves(c, r)
  \/ \E c \in Calls, r \in Runs : BodyRejects(c, r)
  \/ \E c \in Calls, r \in Runs :
       \E k \in 1..Len(run[c][r].conns), m \in server.messages :
         EmitResponse(c, r, k, m)
  \/ \E c \in Calls, r \in Runs :
       \E k \in 1..Len(run[c][r].conns), e \in server.errors :
         EmitError(c, r, k, e)
  \/ \E c \in Calls, r \in Runs : Cancel(c, r)

SpecSend == InitSend /\ [][NextSend]_vars

-----------------------------------------------------------------------------
(* EventEmitter: on, once, removeListener, emit *)

\* A registered listener: the run whose closure it belongs to, the function,
\* and whether emitter.once wrapped it
Listener(owner, fn, single) == [owner |-> owner, fn |-> fn, single |-> single]

RemoveAt(q, i) == SubSeq(q, 1, i - 1) \o SubSeq(q, i + 1, Len(q))

\* emitter.removeListener (name, fn): the most recently added instance of fn
\* is removed; a function that is not registered under name removes nothing
removeListener(ls, name, owner, fn) ==
  LET found == {i \in 1..Len(ls[name]) :
                  ls[name][i].owner = owner /\ ls[name][i].fn = fn}
  IN IF found = {}
     THEN ls
     ELSE [ls EXCEPT ![name] = RemoveAt(@, CHOOSE i \in found : \A j \in found : j <= i)]

\* emitter.on (name, fn)
emitterOn(ls, name, owner, fn) ==
  [ls EXCEPT ![name] = Append(@, Listener(owner, fn, FALSE))]

\* emitter.once (name, fn)
emitterOnce(ls, name, owner, fn) ==
  [ls EXCEPT ![name] = Append(@, Listener(owner, fn, TRUE))]

\* rej and res of Future ((rej, res) => ...): only the first call on a pending
\* Future settles it
rej(fut, x) ==
  IF fut.pc = "pending"
  THEN [fut EXCEPT !.pc = "rejected", !.result = Just(x), !.settles = @ + 1]
  ELSE fut

res(fut, x) ==
  IF fut.pc = "pending"
  THEN [fut EXCEPT !.pc = "resolved", !.result = Just(x), !.settles = @ + 1]
  ELSE fut

-----------------------------------------------------------------------------
(* once (event) (emitter) *)

\* Variant: only the listener of the named event is removed
onceRemoveListenersEventOnly(ls, r, event) ==
  removeListener(ls, event, r, "onEvent")

\* Variant: nothing is removed
onceRemoveListenersNone(ls, r, event) == ls

\* removeListeners of once
onceRemoveListeners(ls, r, event) ==
  removeListener(removeListener(ls, "error", r, "onError"), event, r, "onEvent")

\* Variant: an 'error' resolves the Future
onceOnErrorResolves(st, r, x) ==
  [listeners |-> removeListener(removeListener(st.listeners, "error", r, "onError"),
                                st.futures[r].event, r, "onEvent"),
   futures |-> [st.futures EXCEPT ![r] = res(@, x)]]

\* onError of once
onceOnError(st, r, x) ==
  [listeners |-> onceRemoveListeners(st.listeners, r, st.futures[r].event),
   futures |-> [st.futures EXCEPT ![r] = rej(@, x)]]

\* onEvent of once
onceOnEvent(st, r, x) ==
  [listeners |-> onceRemoveListeners(st.listeners, r, st.futures[r].event),
   futures |-> [st.futures EXCEPT ![r] = res(@, x)]]

\* Forking once (event) (emitter) after now events: both listeners are
\* registered with emitter.once
once(st, r, event, now) ==
  [listeners |-> emitterOnce(emitterOnce(st.listeners, "error", r, "onError"),
                             event, r, "onEvent"),
   futures |-> [st.futures EXCEPT ![r] =
                  [NoFuture EXCEPT !.pc = "pending", !.kind = "once", !.event = event,
                                   !.start = now]]]

-----------------------------------------------------------------------------
(* buffer (stream) *)

\* removeListeners of buffer: 'data' onData, 'error' rej, 'end' onEnd
bufferRemoveListeners(ls, r) ==
  removeListener(removeListener(removeListener(ls, "data", r, "onData"),
                                "error", r, "rej"),
                 "end", r, "onEnd")

\* Variant: a chunk is put in front of the chunks collected so far
bufferOnDataUnshift(st, r, d) == [st EXCEPT !.futures[r].chunks = <<d>> \o @]

\* onData of buffer: chunks.push (d)
bufferOnData(st, r, d) == [st EXCEPT !.futures[r].chunks = Append(@, d)]

\* onEnd of buffer
bufferOnEnd(st, r) ==
  [listeners |-> bufferRemoveListeners(st.listeners, r),
   futures |-> [st.futures EXCEPT ![r] = res(@, @.chunks)]]

\* onError of buffer
bufferOnError(st, r, e) ==
  [listeners |-> bufferRemoveListeners(st.listeners, r),
   futures |-> [st.futures EXCEPT ![r] = rej(@, e)]]

\* Forking buffer (stream) after now events
buffer(st, r, now) ==
  [listeners |-> emitterOnce(emitterOnce(emitterOn(st.listeners, "data", r, "onData"),
                                         "error", r, "onError"),
                             "end", r, "onEnd"),
   futures |-> [st.futures EXCEPT ![r] =
                  [NoFuture EXCEPT !.pc = "pending", !.kind = "buffer", !.start = now]]]

-----------------------------------------------------------------------------
(* emitter.emit *)

\* One listener is called during emit (name, x): the wrapper of emitter.once
\* first removes itself, then the function runs
Invoke(st, name, l, x) ==
  LET unwrapped == IF l.single
                   THEN [st EXCEPT !.listeners = removeListener(@, name, l.owner, l.fn)]
                   ELSE st
      entered == [unwrapped EXCEPT !.futures[l.owner].calls = @ + 1]
  IN CASE l.fn = "onEvent" -> onceOnEvent(entered, l.owner, x)
       [] l.fn = "onError" /\ st.futures[l.owner].kind = "once" ->
            onceOnError(entered, l.owner, x)
       [] l.fn = "onError" /\ st.futures[l.owner].kind = "buffer" ->
            bufferOnError(entered, l.owner, x)
       [] l.fn = "onData" -> bufferOnData(entered, l.owner, x)
       [] l.fn = "onEnd" -> bufferOnEnd(entered, l.owner)

\* emit calls the listeners that were registered when it started, in the
\* order of their registration
RECURSIVE EmitTo(_, _, _, _, _)
EmitTo(copy, i, st, name, x) ==
  IF i > Len(copy)
  THEN st
  ELSE EmitTo(copy, i + 1, Invoke(st, name, copy[i], x), name, x)

emit(st, name, x) == EmitTo(st.listeners[name], 1, st, name, x)

-----------------------------------------------------------------------------
(* Actions on the emitter *)

\* None of the redirect engine is part of the scenario
RedirectUnused ==
  /\ input = [c \in Calls |-> Undefined]
  /\ active = {}
  /\ server = AnyServer
  /\ called = [c \in Calls |-> FALSE]
  /\ seen = [c \in Calls |-> <<>>]
  /\ task = [c \in Calls |-> NoTask]
  /\ strategyCalls = [c \in Calls |-> 0]
  /\ run = [c \in Calls |-> [r \in Runs |-> NoRun]]

Now == [listeners |-> listeners, futures |-> futures]

\* fork (rej) (res) (once (event) (emitter))
ForkOnce(r, event) ==
  /\ futures[r].pc = "idle"
  /\ LET st == once(Now, r, event, Len(emitted))
     IN listeners' = st.listeners /\ futures' = st.futures
  /\ UNCHANGED emitted
  /\ UNCHANGED <<redirectVars, applied>>

\* fork (rej) (res) (buffer (stream))
ForkBuffer(r) ==
  /\ futures[r].pc = "idle"
  /\ LET st == buffer(Now, r, Len(emitted))
     IN listeners' = st.listeners /\ futures' = st.futures
  /\ UNCHANGED emitted
  /\ UNCHANGED <<redirectVars, applied>>

\* Largest number of events the emitter emits
MaxEmits == 3

\* emitter.emit (name, x)
Emit(name, x) ==
  /\ Len(emitted) < MaxEmits
  /\ LET st == emit(Now, name, x)
     IN listeners' = st.listeners /\ futures' = st.futures
  /\ emitted' = Append(emitted, [name |-> name, payload |-> x])
  /\ UNCHANGED <<redirectVars, applied>>

\* The cancel function of a pending Future is called: removeListeners
CancelFuture(r) ==
  /\ futures[r].pc = "pending"
  /\ listeners' = IF futures[r].kind = "once"
                  THEN onceRemoveListeners(listeners, r, futures[r].event)
                  ELSE bufferRemoveListeners(listeners, r)
  /\ futures' = [futures EXCEPT ![r].pc = "cancelled", ![r].stop = Len(emitted)]
  /\ UNCHANGED emitted
  /\ UNCHANGED <<redirectVars, applied>>

\* The events given to once, and what the emitter may emit
OnceEvents == {"test", "answer"}

OncePayloads == {"42", "43"}

InitOnce == RedirectUnused /\ EmitterUnused /\ NothingApplied

NextOnce ==
  \/ \E r \in Runs, event \in OnceEvents : ForkOnce(r, event)
  \/ \E name \in OnceEvents \cup {"error"}, x \in OncePayloads : Emit(name, x)
  \/ \E r \in Runs : CancelFuture(r)

SpecOnce == InitOnce /\ [][NextOnce]_vars

\* What a stream may emit: chunks, the end, an error
Chunks == {"hello", "world"}

StreamEvents ==
  {[name |-> "data", payload |-> d] : d \in Chunks}
    \cup {[name |-> "end", payload |-> ""], [name |-> "error", payload |-> "42"]}

InitBuffer == RedirectUnused /\ EmitterUnused /\ NothingApplied

NextBuffer ==
  \/ \E r \in Runs : ForkBuffer(r)
  \/ \E ev \in StreamEvents : Emit(ev.name, ev.payload)
  \/ \E r \in Runs : CancelFuture(r)

SpecBuffer == InitBuffer /\ [][NextBuffer]_vars

-----------------------------------------------------------------------------
(* encode, bufferString, bufferMessage and their relatives *)

\* A Buffer is the sequence of its bytes.  The slice functions of the codecs,
\* on the bytes of the sample chunks
utf8Char(byte) ==
  CASE byte = 104 -> "h"
    [] byte = 105 -> "i"
    [] byte = 33 -> "!"

hexChar(byte) ==
  CASE byte = 104 -> "68"
    [] byte = 105 -> "69"
    [] byte = 33 -> "21"

RECURSIVE Slice(_, _)
Slice(ops, buf) ==
  IF buf = <<>>
  THEN ""
  ELSE (IF ops = "hex" THEN hexChar(Head(buf)) ELSE utf8Char(Head(buf)))
         \o Slice(ops, Tail(buf))

\* The codec of an encoding name, if the name is one
getEncodingOps(encoding) ==
  CASE encoding \in {"utf8", "utf-8", "UTF-8"} -> Just("utf8")
    [] encoding = "hex" -> Just("hex")
    [] OTHER -> Undefined

\* buffer.toString (encoding): an empty range yields '' before the encoding
\* is looked up; an unknown encoding throws
toString(buf, encoding) ==
  IF Len(buf) = 0
  THEN [threw |-> FALSE, value |-> ""]
  ELSE IF getEncodingOps(encoding) = Undefined
       THEN [threw |-> TRUE,
             value |-> TransportError("Unknown encoding: " \o encoding, "ERR_UNKNOWN_ENCODING")]
       ELSE [threw |-> FALSE, value |-> Slice(getEncodingOps(encoding)[1], buf)]

\* Buffer.concat (chunks)
RECURSIVE BufferConcat(_)
BufferConcat(chunks) ==
  IF chunks = <<>> THEN <<>> ELSE Head(chunks) \o BufferConcat(Tail(chunks))

\* encode (encoding) (buffer), as the Future it settles to
encode(encoding, buf) ==
  LET attempt == toString(buf, encoding)
  IN IF attempt.threw THEN reject(Error(attempt.value.message)) ELSE resolve(attempt.value)

\* A Future that has not settled
Unsettled == [pc |-> "pending", value |-> Undefined]

\* bufferString (charset) (stream), given the state of its buffer (stream)
bufferString(charset, inner) ==
  CASE inner.pc = "resolved" -> encode(charset, BufferConcat(inner.result[1]))
    [] inner.pc = "rejected" -> reject(inner.result[1])
    [] OTHER -> Unsettled

\* Variant: the rejection reason is passed on as it is
bufferMessageUnwrapped(charset, inner) == bufferString(charset, inner)

\* bufferMessage (charset) (message)
bufferMessage(charset, inner) ==
  LET string == bufferString(charset, inner)
  IN IF string.pc = "rejected"
     THEN reject(Error("Failed to buffer response: " \o string.value.message))
     ELSE string

\* bufferResponse (charset) (response): the message of the response is buffered
bufferResponse(charset, inner) == bufferMessage(charset, inner)

defaultCharset == "utf8"

defaultContentType == "text/plain; charset=" \o defaultCharset

\* charsetRegex.exec (contentType): the charset parameter, if there is one
charsetRegexExec(contentType) ==
  CASE contentType = "text/plain; charset=utf8" -> Just("utf8")
    [] contentType = "text/plain; charset=hex" -> Just("hex")
    [] contentType = "text/plain; charset=lalalala" -> Just("lalalala")
    [] OTHER -> Undefined

\* autoBufferMessage (message), for the content-type header of the message
autoBufferMessage(header, inner) ==
  LET contentType == IF header = Undefined \/ header = Just("")
                     THEN defaultContentType
                     ELSE header[1]
      parsed == charsetRegexExec(contentType)
      charset == IF parsed = Undefined THEN defaultCharset ELSE parsed[1]
  IN bufferMessage(charset, inner)

autoBufferResponse(header, inner) == autoBufferMessage(header, inner)

\* The Future a buffering function returned follows the buffer it is built on
Continue(fut) ==
  IF fut.out.pc # "pending"
  THEN fut
  ELSE [fut EXCEPT !.out =
          CASE fut.via = "bufferString" -> bufferString(fut.arg, fut)
            [] fut.via = "bufferMessage" -> bufferMessage(fut.arg, fut)
            [] fut.via = "bufferResponse" -> bufferResponse(fut.arg, fut)
            [] fut.via = "autoBufferMessage" -> autoBufferMessage(fut.arg, fut)
            [] fut.via = "autoBufferResponse" -> autoBufferResponse(fut.arg, fut)
            [] OTHER -> fut.out]

\* fork (rej) (res) (via (arg) (stream))
ForkText(r, via, arg) ==
  /\ futures[r].pc = "idle"
  /\ LET st == buffer(Now, r, Len(emitted))
     IN /\ listeners' = st.listeners
        /\ futures' = [st.futures EXCEPT ![r].via = via, ![r].arg = arg]
  /\ UNCHANGED emitted
  /\ UNCHANGED <<redirectVars, applied>>

\* stream.emit (name, x): the listeners run, and with them the continuations
\* of the Futures they settle
EmitText(name, x) ==
  /\ Len(emitted) < MaxEmits
  /\ LET st == emit(Now, name, x)
     IN /\ listeners' = st.listeners
        /\ futures' = [r \in Runs |-> Continue(st.futures[r])]
  /\ emitted' = Append(emitted, [name |-> name, payload |-> x])
  /\ UNCHANGED <<redirectVars, applied>>

\* The chunks of a stream: "hi", "!", and an empty Buffer
TextChunks == {<<104, 105>>, <<33>>, <<>>}

TextEvents ==
  {[name |-> "data", payload |-> d] : d \in TextChunks}
    \cup {[name |-> "end", payload |-> <<>>],
          [name |-> "error", payload |-> Error("socket hang up")]}

Charsets == {"utf8", "hex", "lalalala"}

ContentTypes ==
  {Undefined, Just("text/plain"), Just("text/plain; charset=hex"),
   Just("text/plain; charset=lalalala")}

\* What the first run may fork; the second run forks bufferString ('lalalala')
TextForks ==
  [via : {"bufferString", "bufferMessage", "bufferResponse"}, arg : Charsets]
    \cup [via : {"autoBufferMessage", "autoBufferResponse"}, arg : ContentTypes]

InitText == RedirectUnused /\ EmitterUnused /\ NothingApplied

NextText ==
  \/ \E f \in TextForks : ForkText("r1", f.via, f.arg)
  \/ ForkText("r2", "bufferString", "lalalala")
  \/ \E ev \in TextEvents : EmitText(ev.name, ev.payload)
  \/ \E r \in Runs : CancelFuture(r)

SpecText == InitText /\ [][NextText]_vars

-----------------------------------------------------------------------------
(* Applying the handlers: the strategies, matchStatus, acceptStatus *)

\* handler (response), for a handler given by name
ApplyHandler(c) ==
  /\ input[c] # Undefined
  /\ LET handler == input[c].strategy
         response == input[c].response
     IN applied' = [fn |-> "handler", f |-> handler, fs |-> <<>>, code |-> 0,
                    response |-> response,
                    result |-> Apply(handler, response),
                    called |-> Called(handler, response)]
  /\ UNCHANGED <<redirectVars, emitterVars>>

\* matchStatus (f) (fs) (response)
ApplyMatchStatus(c, fs) ==
  /\ input[c] # Undefined
  /\ LET f == input[c].strategy
         response == input[c].response
         statusCode == response.message.statusCode
     IN applied' = [fn |-> "matchStatus", f |-> f, fs |-> fs, code |-> 0,
                    response |-> response,
                    result |-> matchStatus(f, fs, response),
                    called |-> Called(IF statusCode \in DOMAIN fs THEN fs[statusCode] ELSE f,
                                      response)]
  /\ UNCHANGED <<redirectVars, emitterVars>>

\* acceptStatus (code) (response)
ApplyAcceptStatus(c, code) ==
  /\ input[c] # Undefined
  /\ LET response == input[c].response
         statusCode == response.message.statusCode
     IN applied' = [fn |-> "acceptStatus", f |-> "reject", fs |-> (code :> "resolve"),
                    code |-> code, response |-> response,
                    result |-> acceptStatus(code, response),
                    called |-> <<IF statusCode = code THEN "resolve" ELSE "reject">>]
  /\ UNCHANGED <<redirectVars, emitterVars>>

UrlOther == Url("http:", "h2", "/a")

CookieGetA ==
  Request([EmptyOptions EXCEPT !.headers = Just(("Cookie" :> "yum") @@ ("Accept" :> "y"))],
          UrlA, emptyStream)

CookiePostOther ==
  Request([EmptyOptions EXCEPT !.method = Just("post"),
                               !.headers = Just(("cookie" :> "yum"))],
          UrlOther, Body("b5", "test", "sync"))

MixedConditionalGetB ==
  Request([EmptyOptions EXCEPT
             !.method = Just("get"),
             !.headers = Just(("IF-MODIFIED-SINCE" :> "x") @@ ("if-match" :> "y")
                                @@ ("Cookie" :> "yum"))],
          UrlB, emptyStream)

ConditionalPostA ==
  Request([EmptyOptions EXCEPT !.method = Just("POST"),
                               !.headers = Just(("If-Unmodified-Since" :> "x"))],
          UrlA, Body("b6", "test", "sync"))

HandlerRequests ==
  SampleRequests \cup {CookieGetA, CookiePostOther, MixedConditionalGetB, ConditionalPostA}

HandlerLocations ==
  SampleLocations \cup {Just(Ref("http:", "h2", "/b")), Just(Ref("http:", "h1", "/b")),
                        Just(Ref("http:", "h2", ""))}

HandlerStatuses == {200, 201, 300, 301, 302, 303, 304, 305, 307, 404}

HandlerMessages == {Message(s, l) : s \in HandlerStatuses, l \in HandlerLocations}

Handlers ==
  {"Response.request", "redirectAnyRequest", "redirectIfGetMethod",
   "redirectUsingGetMethod", "retryWithoutCondition", "defaultRedirectionPolicy",
   "aggressiveRedirectionPolicy", "echoStrategy"}

\* Tables given to matchStatus on top of a default handler
MatchTables ==
  {<<>>,
   (300 :> "echoStrategy") @@ (301 :> "redirectUsingGetMethod"),
   (200 :> "echoStrategy") @@ (304 :> "retryWithoutCondition")}

AcceptedCodes == {200, 201, 404}

HandlerInputs ==
  [strategy : Handlers, max : {0},
   response : {Response(q, m) : q \in HandlerRequests, m \in HandlerMessages}]

InitHandlers ==
  /\ \E i \in HandlerInputs : input = [c \in Calls |-> i]
  /\ active = {}
  /\ server = AnyServer
  /\ called = [c \in Calls |-> FALSE]
  /\ seen = [c \in Calls |-> <<>>]
  /\ task = [c \in Calls |-> NoTask]
  /\ strategyCalls = [c \in Calls |-> 0]
  /\ run = [c \in Calls |-> [r \in Runs |-> NoRun]]
  /\ EmitterUnused
  /\ NothingApplied

NextHandlers ==
  \/ \E c \in Calls : ApplyHandler(c)
  \/ \E c \in Calls, fs \in MatchTables : ApplyMatchStatus(c, fs)
  \/ \E c \in Calls, code \in AcceptedCodes : ApplyAcceptStatus(c, code)

SpecHandlers == InitHandlers /\ [][NextHandlers]_vars

-----------------------------------------------------------------------------
(* followRedirects: followRedirectsWith (defaultRedirectionPolicy) *)

followRedirects == "defaultRedirectionPolicy"

\* The status codes of the responses given to followRedirects
FollowStatuses == {200, 301, 302, 303, 304, 305, 307, 404}

FollowInputs ==
  [strategy : {followRedirects}, max : Maxes,
   response : {Response(q, Message(s, l)) :
                 q \in SampleRequests, s \in FollowStatuses, l \in SampleLocations}]

\* One call of followRedirects, forked once
InitFollow ==
  /\ \E i \in FollowInputs : input = [c \in Calls |-> i]
  /\ active = {<<"c1", "r1">>}
  /\ server = AnyServer
  /\ called = [c \in Calls |-> FALSE]
  /\ seen = [c \in Calls |-> <<>>]
  /\ task = [c \in Calls |-> NoTask]
  /\ strategyCalls = [c \in Calls |-> 0]
  /\ run = [c \in Calls |-> [r \in Runs |-> NoRun]]
  /\ EmitterUnused
  /\ NothingApplied

SpecFollow == InitFollow /\ [][Next]_vars

-----------------------------------------------------------------------------
(* cleanRequestOptions on its own *)

\* cleanRequestOptions (request)
ApplyClean(c) ==
  /\ input[c] # Undefined
  /\ applied' = [fn |-> "cleanRequestOptions",
                 request |-> input[c].response.request,
                 result |-> cleanRequestOptions(input[c].response.request)]
  /\ UNCHANGED <<redirectVars, emitterVars>>

\* Options objects: absent fields, given fields, and falsy or truthy values
\* that are neither true nor false ("null", "1")
CleanOptions ==
  {[EmptyOptions EXCEPT !.method = m, !.headers = h, !.maxHeaderSize = s, !.setHost = t,
                        !.insecureHTTPParser = p, !.defaultPort = d, !.agent = a,
                        !.timeout = o] :
     m \in {Undefined, Just(""), Just("get"), Just("POST"), Just("put")},
     h \in {Undefined, Just(EmptyHeaders), Just(("Accept" :> "y"))},
     s \in {Undefined, Just(0), Just(8192)},
     t \in {Undefined, Just("false"), Just("true"), Just("null")},
     p \in {Undefined, Just("true"), Just("false"), Just("1")},
     d \in {Undefined, Just(0), Just(8080)},
     a \in {Undefined, Just([defaultPort |-> Just(443)])},
     o \in {Undefined, Just(1000)}}

InitClean ==
  /\ \E options \in CleanOptions :
       input = [c \in Calls |->
                  [strategy |-> "Response.request", max |-> 0,
                   response |-> Response(Request(options, UrlA, emptyStream),
                                         Message(200, Undefined))]]
  /\ active = {}
  /\ server = AnyServer
  /\ called = [c \in Calls |-> FALSE]
  /\ seen = [c \in Calls |-> <<>>]
  /\ task = [c \in Calls |-> NoTask]
  /\ strategyCalls = [c \in Calls |-> 0]
  /\ run = [c \in Calls |-> [r \in Runs |-> NoRun]]
  /\ EmitterUnused
  /\ NothingApplied

NextClean == \E c \in Calls : ApplyClean(c)

SpecClean == InitClean /\ [][NextClean]_vars

-----------------------------------------------------------------------------
(* immediate (x) *)

\* Forking immediate (x): setImmediate (res, x) schedules the job
immediate(x, now) ==
  [NoFuture EXCEPT !.pc = "pending", !.kind = "immediate", !.arg = Just(x),
                   !.job = "scheduled", !.start = now]

\* Variant: the cancel function leaves the job where it is
immediateCancelKeepsJob(fut) == fut

\* The cancel function of immediate: clearImmediate (job)
immediateCancel(fut) ==
  [fut EXCEPT !.job = IF @ = "scheduled" THEN "cleared" ELSE @]

\* fork (rej) (res) (immediate (x))
ForkImmediate(r, x) ==
  /\ futures[r].pc = "idle"
  /\ futures' = [futures EXCEPT ![r] = immediate(x, Len(emitted))]
  /\ UNCHANGED <<listeners, emitted>>
  /\ UNCHANGED <<redirectVars, applied>>

\* The event loop runs the scheduled job: res (x)
RunImmediate(r) ==
  /\ futures[r].job = "scheduled"
  /\ futures' = [futures EXCEPT ![r] =
                   res([@ EXCEPT !.job = "ran", !.calls = @ + 1], @.arg[1])]
  /\ UNCHANGED <<listeners, emitted>>
  /\ UNCHANGED <<redirectVars, applied>>

\* The cancel function of a pending run is called
CancelImmediate(r) ==
  /\ futures[r].kind = "immediate"
  /\ futures[r].pc = "pending"
  /\ futures' = [futures EXCEPT ![r] = immediateCancel([@ EXCEPT !.pc = "cancelled"])]
  /\ UNCHANGED <<listeners, emitted>>
  /\ UNCHANGED <<redirectVars, applied>>

ImmediateValues == {"results", "did run", "noodles", "42"}

InitImmediate == RedirectUnused /\ EmitterUnused /\ NothingApplied

NextImmediate ==
  \/ \E r \in Runs, x \in ImmediateValues : ForkImmediate(r, x)
  \/ \E r \in Runs : RunImmediate(r)
  \/ \E r \in Runs : CancelImmediate(r)

\* A job that stays scheduled is run by the event loop
SpecImmediate ==
  InitImmediate /\ [][NextImmediate]_vars /\ \A r \in Runs : WF_vars(RunImmediate(r))

-----------------------------------------------------------------------------
(* The aggressive policy against a server that always answers 304 *)

NotModified == {Message(304, l) : l \in SampleLocations}

\* Every request is answered 304; the transport reports no error
NotModifiedServer ==
  [det |-> FALSE, messages |-> NotModified, errors |-> {}, table |-> <<>>]

\* GET requests with and without conditional headers
NotModifiedInputs ==
  [strategy : {"aggressiveRedirectionPolicy"}, max : Maxes,
   response : {Response(q, m) :
                 q \in {GetA, GetBare, CookieGetA, ConditionalGetA, MixedConditionalGetB},
                 m \in NotModified}]

InitNotModified ==
  /\ \E i \in NotModifiedInputs : input = [c \in Calls |-> i]
  /\ active = {<<"c1", "r1">>}
  /\ server = NotModifiedServer
  /\ called = [c \in Calls |-> FALSE]
  /\ seen = [c \in Calls |-> <<>>]
  /\ task = [c \in Calls |-> NoTask]
  /\ strategyCalls = [c \in Calls |-> 0]
  /\ run = [c \in Calls |-> [r \in Runs |-> NoRun]]
  /\ EmitterUnused
  /\ NothingApplied

\* The server answers a request of the run
AnswerNotModified(c, r) ==
  \E k \in 1..Len(run[c][r].conns), m \in server.messages : EmitResponse(c, r, k, m)

NextNotModified ==
  \/ \E c \in Calls : Call(c)
  \/ \E c \in Calls, r \in Runs : Fork(c, r)
  \/ \E c \in Calls, r \in Runs : AnswerNotModified(c, r)

\* The Future is forked once it was built, and every request is answered
SpecNotModified ==
  /\ InitNotModified
  /\ [][NextNotModified]_vars
  /\ \A c \in Calls : WF_vars(Call(c))
  /\ \A c \in Calls, r \in Runs : WF_vars(Fork(c, r)) /\ WF_vars(AnswerNotModified(c, r))

-----------------------------------------------------------------------------
(* requestsEquivalent on its own *)

\* requestsEquivalent (left) (right)
ApplyEquivalent ==
  /\ input["c1"] # Undefined
  /\ LET left == input["c1"].response.request
         right == input["c2"].response.request
     IN applied' = [fn |-> "requestsEquivalent", left |-> left, right |-> right,
                    result |-> requestsEquivalent(left, right)]
  /\ UNCHANGED <<redirectVars, emitterVars>>

\* Requests that differ in spelling only, in their URL string only, or in the
\* identity of their body only
EquivalenceRequests ==
  {GetA,
   Request([EmptyOptions EXCEPT !.method = Just("get")], UrlA, emptyStream),
   Request([EmptyOptions EXCEPT !.method = Just("GET"), !.headers = Just(EmptyHeaders),
                                !.setHost = Just("true")],
           UrlA, emptyStream),
   Request([EmptyOptions EXCEPT !.setHost = Just("false")], UrlA, emptyStream),
   ConditionalGetA,
   GetBare,
   Request(GetBare.options, Href(UrlBare), emptyStream),
   Request(EmptyOptions, UrlA, Body("b7", "", "sync")),
   PostA,
   Request(PostA.options, UrlA, Body("b8", "test", "sync")),
   Request([EmptyOptions EXCEPT !.method = Just("post")], UrlA, PostA.body),
   Request(PostA.options, UrlB, PostA.body)}

InitEquivalent ==
  /\ \E left \in EquivalenceRequests, right \in EquivalenceRequests :
       input = [c \in Calls |->
                  [strategy |-> "Response.request", max |-> 0,
                   response |-> Response(IF c = "c1" THEN left ELSE right,
                                         Message(200, Undefined))]]
  /\ active = {}
  /\ server = AnyServer
  /\ called = [c \in Calls |-> FALSE]
  /\ seen = [c \in Calls |-> <<>>]
  /\ task = [c \in Calls |-> NoTask]
  /\ strategyCalls = [c \in Calls |-> 0]
  /\ run = [c \in Calls |-> [r \in Runs |-> NoRun]]
  /\ EmitterUnused
  /\ NothingApplied

NextEquivalent == ApplyEquivalent

SpecEquivalent == InitEquivalent /\ [][NextEquivalent]_vars

-----------------------------------------------------------------------------
(* Properties of the redirect engine *)

RunIds == Calls \X Runs

RunOf(id) == run[id[1]][id[2]]

Settled(rn) == rn.pc \in {"resolved", "rejected"}

\* The step is the 'response' event with message m on connection k of run
\* <<c, r>>, heard by a listener whose Future is still open: the hop succeeds
HopSucceeds(c, r, k, m) ==
  /\ run[c][r].conns[k].listener
  /\ run[c][r].conns[k].open
  /\ EmitResponse(c, r, k, m)

\* C1: a run of followRedirectsWith (strategy) (max) (response) with max >= 0
\* passes at most max requests to sendRequest.
C1_AtMostMaxRequests ==
  \A id \in RunIds :
    input[id[1]].max >= 0 => Len(RunOf(id).sent) <= input[id[1]].max

\* A run that used up its whole allowance of MaxMax requests and resolved
C1_Witness ==
  \E id \in RunIds :
    /\ RunOf(id).pc = "resolved"
    /\ input[id[1]].max = MaxMax
    /\ Len(RunOf(id).sent) = MaxMax
    /\ MaxMax >= 2

\* C2: an attempt entered with max < 1, in the call itself or after a hop,
\* resolves with the response it was given, does not apply the strategy and
\* issues no request.
C2_EntryBelowOne ==
  /\ \A c \in Calls :
       (~called[c] /\ called'[c] /\ input[c].max < 1)
         => /\ task'[c] = Resolved(input[c].response)
            /\ strategyCalls'[c] = 0
  /\ \A c \in Calls, r \in Runs :
       (run[c][r].pc = "unforked" /\ run'[c][r].pc # "unforked" /\ input[c].max < 1)
         => /\ run'[c][r].pc = "resolved"
            /\ run'[c][r].result = Just(input[c].response)
            /\ run'[c][r].sent = <<>>
            /\ strategyCalls'[c] = 0
  /\ \A c \in Calls, r \in Runs :
       \A k \in 1..Len(run[c][r].conns), m \in server.messages :
         (HopSucceeds(c, r, k, m) /\ run[c][r].max < 1)
           => /\ run'[c][r].pc = "resolved"
              /\ run'[c][r].result = Just(Response(run[c][r].conns[k].request, m))
              /\ run'[c][r].sent = run[c][r].sent
              /\ strategyCalls'[c] = strategyCalls[c]

C2_NoAttemptBelowOne == [][C2_EntryBelowOne]_vars

\* A run that resolved with a 301 response carrying a Location it had not
\* requested, because the hop that produced it was entered with max 0
C2_Witness ==
  \E id \in RunIds :
    LET rn == RunOf(id) IN
    /\ rn.pc = "resolved"
    /\ rn.max < 1
    /\ Len(rn.sent) >= 1
    /\ input[id[1]].strategy = "aggressiveRedirectionPolicy"
    /\ rn.result[1].message.statusCode = 301
    /\ rn.result[1].message.location = Just(RelRef("/b"))
    /\ \A i \in 1..Len(seen[id[1]]) : seen[id[1]][i].url # UrlB
    /\ rn.result[1].request.url # UrlB

\* The strategy answers response with a request equivalent to response's own
SelfRedirect(strategy, response) ==
  requestsEquivalent(Apply(strategy, response), response.request)

\* C3: when the strategy's request is equivalent to the request that produced
\* the current response, the attempt resolves with that response and issues
\* no request.
C3_SelfRedirectStep ==
  /\ \A c \in Calls :
       (~called[c] /\ called'[c] /\ SelfRedirect(input[c].strategy, input[c].response))
         => task'[c] = Resolved(input[c].response)
  /\ \A c \in Calls, r \in Runs :
       (/\ run[c][r].pc = "unforked"
        /\ run'[c][r].pc # "unforked"
        /\ SelfRedirect(input[c].strategy, input[c].response))
         => /\ run'[c][r].pc = "resolved"
            /\ run'[c][r].result = Just(input[c].response)
            /\ run'[c][r].sent = <<>>
  /\ \A c \in Calls, r \in Runs :
       \A k \in 1..Len(run[c][r].conns), m \in server.messages :
         (/\ HopSucceeds(c, r, k, m)
          /\ SelfRedirect(input[c].strategy, Response(run[c][r].conns[k].request, m)))
           => /\ run'[c][r].pc = "resolved"
              /\ run'[c][r].result = Just(Response(run[c][r].conns[k].request, m))
              /\ run'[c][r].sent = run[c][r].sent

C3_SelfRedirectResolves == [][C3_SelfRedirectStep]_vars

\* A run that requested /b, was answered 301 with Location /b while it still
\* had hops left, and resolved with that answer
C3_Witness ==
  \E id \in RunIds :
    LET rn == RunOf(id) IN
    /\ rn.pc = "resolved"
    /\ rn.max >= 1
    /\ Len(rn.sent) = 1
    /\ input[id[1]].strategy = "defaultRedirectionPolicy"
    /\ rn.sent[1].url = UrlB
    /\ rn.result = Just(Response(rn.sent[1], Message(301, Just(RelRef("/b")))))

\* The scenario of C4: followRedirects (max) with max >= 2 on the 301 answer
\* to GET /a that points to /b
C4_Scenario(c) ==
  /\ input[c].strategy = "defaultRedirectionPolicy"
  /\ input[c].max >= 2
  /\ input[c].response = Response(GetA, Message(301, Just(RelRef("/b"))))

C4_BackToA == Message(301, Just(RelRef("/a")))

\* C4: in that scenario, once /b has answered 301 pointing back to /a, the run
\* has resolved with the answer of /b and the request to /b is the only one
\* it has issued.
C4_LoopStopsAtB ==
  \A id \in RunIds :
    LET rn == RunOf(id) IN
    (/\ C4_Scenario(id[1])
     /\ Len(rn.conns) >= 1
     /\ rn.conns[1].response = Just(C4_BackToA)
     /\ rn.pc # "cancelled")
      => /\ rn.pc = "resolved"
         /\ rn.sent = <<Request(EmptyOptions, UrlB, emptyStream)>>
         /\ rn.result = Just(Response(rn.sent[1], C4_BackToA))

\* The loop between /a and /b, ended with two hops still allowed at the start
C4_Witness ==
  \E id \in RunIds :
    /\ C4_Scenario(id[1])
    /\ RunOf(id).pc = "resolved"
    /\ Len(RunOf(id).conns) = 1
    /\ RunOf(id).conns[1].response = Just(C4_BackToA)

\* The error that made the last sendRequest of a rejected run fail
FailureOf(rn) ==
  LET request == Last(rn.sent) IN
  IF getRequestModule(request.url.protocol) = Undefined
  THEN UnsupportedProtocol(request.url.protocol)
  ELSE IF request.body.mode \in {"fail", "asyncFail"}
       THEN BodyError
       ELSE Last(rn.conns).error[1]

C6_Wrapped ==
  \A id \in RunIds :
    RunOf(id).pc = "rejected"
      => RunOf(id).result = Just(Error("After redirect: " \o FailureOf(RunOf(id)).message))

C6_NothingAfter ==
  \A id \in RunIds :
    RunOf(id).pc = "rejected"
      => /\ run'[id[1]][id[2]].pc = "rejected"
         /\ run'[id[1]][id[2]].sent = RunOf(id).sent
         /\ run'[id[1]][id[2]].result = RunOf(id).result
         /\ run'[id[1]][id[2]].settles = RunOf(id).settles
         /\ Len(run'[id[1]][id[2]].conns) = Len(RunOf(id).conns)

\* C6: a run whose request failed with e has rejected with a new Error whose
\* message is 'After redirect: ' followed by e.message, and from then on it
\* issues no request and does not settle again.
C6_RejectsAfterRedirect == [](C6_Wrapped) /\ [][C6_NothingAfter]_vars

\* A run whose first hop failed in the transport while more hops were allowed
C6_Witness ==
  \E id \in RunIds :
    LET rn == RunOf(id) IN
    /\ rn.pc = "rejected"
    /\ rn.max >= 1
    /\ Len(rn.conns) = 1
    /\ rn.conns[1].error = Just(TransportError("connect ECONNREFUSED", "ECONNREFUSED"))
    /\ rn.result = Just(Error("After redirect: connect ECONNREFUSED"))

\* The run was cancelled while the connection of its latest request was open
CancelledInFlight(rn) == rn.pc = "cancelled" /\ Len(rn.conns) = rn.bodyRuns

C9_Aborted ==
  \A id \in RunIds :
    LET rn == RunOf(id) IN
    /\ CancelledInFlight(rn) => Last(rn.conns).aborted
    /\ rn.pc = "cancelled" => (rn.result = Undefined /\ rn.settles = 0)

C9_NothingAfter ==
  \A id \in RunIds :
    RunOf(id).pc = "cancelled"
      => /\ run'[id[1]][id[2]].pc = "cancelled"
         /\ run'[id[1]][id[2]].sent = RunOf(id).sent
         /\ Len(run'[id[1]][id[2]].conns) = Len(RunOf(id).conns)

\* C9: cancelling a run while a hop is in flight aborts the connection of that
\* hop; a cancelled run issues no request afterwards and has settled neither
\* by resolving nor by rejecting.
C9_CancelStopsTheRun == [](C9_Aborted) /\ [][C9_NothingAfter]_vars

\* A run cancelled in flight whose aborted connection later delivered a 301
\* answer pointing to a URL not requested so far, with hops still allowed
C9_Witness ==
  \E id \in RunIds :
    LET rn == RunOf(id) IN
    /\ CancelledInFlight(rn)
    /\ rn.max >= 1
    /\ input[id[1]].strategy = "aggressiveRedirectionPolicy"
    /\ Last(rn.sent).url = UrlA
    /\ input[id[1]].response.request.url = UrlBare
    /\ Last(rn.conns).response = Just(Message(301, Just(RelRef("/b"))))

\* What the transport reports on connection k of run <<c, r>> in this step
Reports(c, r, k) ==
  \/ run'[c][r].conns[k].response # run[c][r].conns[k].response
  \/ run'[c][r].conns[k].error # run[c][r].conns[k].error

C10_Detached ==
  \A id \in RunIds :
    \A k \in 1..Len(RunOf(id).conns) :
      /\ RunOf(id).conns[k].aborted => ~RunOf(id).conns[k].listener
      /\ (CancelledInFlight(RunOf(id)) /\ k = Len(RunOf(id).conns))
           => RunOf(id).conns[k].aborted

C10_Silent ==
  \A c \in Calls, r \in Runs :
    \A k \in 1..Len(run[c][r].conns) :
      (/\ run[c][r].pc = "cancelled"
       /\ k = Len(run[c][r].conns)
       /\ Len(run'[c][r].conns) >= k
       /\ Reports(c, r, k))
        => /\ run'[c][r] = [run[c][r] EXCEPT !.conns[k] = run'[c][r].conns[k]]
           /\ seen' = seen
           /\ strategyCalls' = strategyCalls

\* C10: once the Future of sendRequest is cancelled, the 'response' listener is
\* off the connection and the connection is aborted, and whatever the
\* transport reports on it afterwards reaches neither continuation.
C10_CancelledSendIsSilent == [](C10_Detached) /\ [][C10_Silent]_vars

\* A cancelled send whose connection afterwards reported a response and then
\* an error
C10_Witness ==
  \E id \in RunIds :
    LET rn == RunOf(id) IN
    /\ CancelledInFlight(rn)
    /\ Last(rn.conns).aborted
    /\ Last(rn.conns).response # Undefined
    /\ Last(rn.conns).error # Undefined
    /\ rn.settles = 0

Pending(rn) == rn.pc \in {"body", "inflight"}

\* C5: when every request that is issued is answered, a run that has started
\* ends: it resolves or rejects (or was cancelled), and does not go on issuing
\* requests for ever.
C5_EveryRunEnds ==
  \A id \in RunIds :
    Pending(RunOf(id)) ~> (Settled(RunOf(id)) \/ RunOf(id).pc = "cancelled")

\* A run that resolved because max was used up, every request having been
\* new, and whose strategy had yet another new request for the last answer
C5_Witness ==
  \E id \in RunIds :
    LET rn == RunOf(id)
        c == id[1]
        again == Append(seen[c], rn.result[1].request)
    IN /\ rn.pc = "resolved"
       /\ input[c].max = MaxMax
       /\ Len(rn.sent) = MaxMax
       /\ MaxMax >= 2
       /\ ~SeenBefore(again, Len(again), Apply(input[c].strategy, rn.result[1]))

\* C7: two forks of the Future of one call, against a server that answers
\* equal requests equally, issue the same requests and settle alike.
C7_ForksAgree ==
  \A c \in Calls :
    (Settled(run[c]["r1"]) /\ Settled(run[c]["r2"]))
      => /\ run[c]["r1"].sent = run[c]["r2"].sent
         /\ run[c]["r1"].pc = run[c]["r2"].pc
         /\ run[c]["r1"].result = run[c]["r2"].result

\* The outcome of one call run on its own against the answers in table: the
\* attempts one after another, with a seen array that nothing else touches
RECURSIVE AloneFollowUp(_, _, _, _, _)
RECURSIVE AloneSend(_, _, _, _, _)
AloneSend(strategy, seenNow, request, max, table) ==
  IF getRequestModule(request.url.protocol) = Undefined
  THEN [pc |-> "rejected",
        result |-> Just(AfterRedirect(UnsupportedProtocol(request.url.protocol)))]
  ELSE IF request.body.mode \in {"fail", "asyncFail"}
  THEN [pc |-> "rejected", result |-> Just(AfterRedirect(BodyError))]
  ELSE IF Wire(request) \notin DOMAIN table
  THEN [pc |-> "unanswered", result |-> Undefined]
  ELSE IF table[Wire(request)].kind = "error"
  THEN [pc |-> "rejected", result |-> Just(AfterRedirect(table[Wire(request)].error))]
  ELSE AloneFollowUp(strategy, seenNow, max,
                     Response(request, table[Wire(request)].message), table)

AloneFollowUp(strategy, seenNow, max, response, table) ==
  LET f == followUp(strategy, seenNow, max, response)
  IN IF f.future.kind = "resolve"
     THEN [pc |-> "resolved", result |-> Just(f.future.response)]
     ELSE AloneSend(strategy, f.seen, f.future.request, f.future.max, table)

Alone(c) ==
  AloneFollowUp(input[c].strategy, <<>>, input[c].max, input[c].response, server.table)

\* C8: of two calls whose hops interleave, each settles as it would settle on
\* its own: what the other call has recorded as seen does not end it.
C8_CallsDoNotInterfere ==
  \A c \in Calls :
    Settled(run[c]["r1"])
      => [pc |-> run[c]["r1"].pc, result |-> run[c]["r1"].result] = Alone(c)

\* Both calls have settled, and the second request of the second call is
\* equivalent to a request that the first call has recorded as seen
C8_Witness ==
  /\ Settled(run["c1"]["r1"])
  /\ run["c2"]["r1"].pc = "resolved"
  /\ Len(run["c2"]["r1"].sent) = 2
  /\ \E i \in 1..Len(seen["c1"]) :
       requestsEquivalent(seen["c1"][i], run["c2"]["r1"].sent[2])

-----------------------------------------------------------------------------
(* Properties of sendRequest *)

Supported(request) == request.url.protocol \in {"http:", "https:"}

\* C11: sendRequest of a request whose URL scheme is neither http nor https
\* rejects with Error "Unsupported protocol '<scheme>'", and no connection is
\* ever opened for such a request: lib.request is not called, the body is not run.
C11_UnsupportedProtocolFails ==
  \A id \in RunIds :
    LET rn == RunOf(id) IN
    /\ \A k \in 1..Len(rn.conns) : Supported(rn.conns[k].request)
    /\ (rn.direct /\ rn.sent # <<>> /\ ~Supported(rn.sent[1]))
         => /\ rn.pc = "rejected"
            /\ rn.result =
                 Just([message |-> "Unsupported protocol '" \o rn.sent[1].url.protocol \o "'",
                       code |-> <<>>])
            /\ rn.settles = 1
            /\ rn.conns = <<>>
            /\ rn.bodyRuns = 0

\* sendRequest of the request for ftp://localhost was forked and has rejected
C11_Witness ==
  \E id \in RunIds :
    /\ RunOf(id).direct
    /\ RunOf(id).sent = <<FtpLocal>>
    /\ RunOf(id).pc = "rejected"
    /\ RunOf(id).result = Just([message |-> "Unsupported protocol 'ftp:'", code |-> <<>>])

\* The transport reported error e on the connection before any response, and
\* the run had not been cancelled by then
FailedInTransport(conn) ==
  conn.error # Undefined /\ conn.response = Undefined /\ ~conn.aborted

\* C12: when the body Future of the request rejects, or the transport reports
\* an error on the connection before any response, sendRequest rejects with
\* that very error value, neither wrapped nor replaced.
C12_FailsVerbatim ==
  \A id \in RunIds :
    LET rn == RunOf(id) IN
    rn.direct =>
      /\ (rn.conns # <<>> /\ FailedInTransport(rn.conns[1]))
           => (rn.pc = "rejected" /\ rn.result = rn.conns[1].error /\ rn.settles = 1)
      /\ (rn.pc = "rejected" /\ Supported(rn.sent[1]) /\ rn.conns = <<>>)
           => (/\ rn.sent[1].body.mode \in {"fail", "asyncFail"}
               /\ rn.result = Just(BodyError)
               /\ rn.settles = 1)
      /\ (rn.pc = "rejected" /\ rn.conns # <<>>) => FailedInTransport(rn.conns[1])

\* sendRequest of the request for https://localhost rejected with the
\* connection error
C12_Witness ==
  \E id \in RunIds :
    LET rn == RunOf(id) IN
    /\ rn.direct
    /\ rn.pc = "rejected"
    /\ rn.conns # <<>>
    /\ rn.result = Just(TransportError("connect ECONNREFUSED", "ECONNREFUSED"))
    /\ rn.sent[1] = HttpsLocal

\* sendRequest rejected with the error of the body Future, no connection opened
C12_BodyWitness ==
  \E id \in RunIds :
    LET rn == RunOf(id) IN
    /\ rn.direct
    /\ rn.pc = "rejected"
    /\ rn.sent[1] = PutLateUnreadable
    /\ rn.result = Just(BodyError)
    /\ rn.conns = <<>>

C13_RefersToItsRequest ==
  \A id \in RunIds :
    LET rn == RunOf(id) IN
    /\ rn.settles <= 1
    /\ (rn.pc = "resolved" /\ rn.direct)
         => /\ Len(rn.conns) = 1
            /\ rn.conns[1].response # Undefined
            /\ rn.result = Just([request |-> task[id[1]].request,
                                 message |-> rn.conns[1].response[1]])
    /\ (rn.pc = "resolved" /\ ~rn.direct /\ rn.conns # <<>>)
         => /\ Last(rn.conns).response # Undefined
            /\ rn.result = Just([request |-> Last(rn.sent),
                                 message |-> Last(rn.conns).response[1]])

\* A run of sendRequest resolves in the step in which its connection reports
\* its response, and stays as it is afterwards
C13_OnFirstResponse ==
  \A id \in RunIds :
    LET rn == RunOf(id)
        after == run'[id[1]][id[2]]
    IN rn.direct =>
         /\ (rn.pc # "resolved" /\ after.pc = "resolved")
              => (rn.conns[1].response = Undefined /\ after.conns[1].response # Undefined)
         /\ rn.pc = "resolved"
              => (after.pc = "resolved" /\ after.result = rn.result
                  /\ after.settles = rn.settles)

\* C13: a run of sendRequest resolves at most once, in the step of the first
\* 'response' of its connection, with a Response made of the Request given to
\* sendRequest and the message received; the Response a redirect run resolves
\* with after a hop refers to the request issued for that hop.
C13_ResolvesOnceWithItsRequest ==
  [](C13_RefersToItsRequest) /\ [][C13_OnFirstResponse]_vars

\* sendRequest of the request for "http://h1", whose URL is spelled without
\* its path, has resolved
C13_Witness ==
  \E id \in RunIds :
    /\ RunOf(id).direct
    /\ RunOf(id).pc = "resolved"
    /\ RunOf(id).result[1].request = GetBare
    /\ task[id[1]] = Send(GetBare)

\* One more request of the same run was issued in this step
IssuesRequest(id) == Len(run'[id[1]][id[2]].sent) = Len(RunOf(id).sent) + 1

\* C14: every send that reaches the transport has run the body Future of its
\* request once more, and the stream piped into its connection is the stream
\* of that run, not the stream of an earlier send of the same run.
C14_FreshStreamPerSend ==
  \A id \in RunIds :
    LET rn == RunOf(id) IN
    /\ rn.bodyRuns =
         Len(rn.sent) - (IF rn.sent # <<>> /\ ~Supported(Last(rn.sent)) THEN 1 ELSE 0)
    /\ \A k \in 1..Len(rn.conns) :
         /\ rn.conns[k].stream.body = rn.conns[k].request.body.id
         /\ rn.conns[k].stream.fork = k
         /\ \A j \in 1..(k - 1) : rn.conns[j].stream # rn.conns[k].stream

\* Both hops of a run send the body Future of the original request, and the
\* second connection is given the stream of its second run
C14_Witness ==
  \E id \in RunIds :
    LET rn == RunOf(id) IN
    /\ Len(rn.conns) = 2
    /\ rn.conns[1].request.body = input[id[1]].response.request.body
    /\ rn.conns[2].request.body = input[id[1]].response.request.body
    /\ rn.conns[2].stream.fork = 2
    /\ rn.bodyRuns = 2

InFlight(conn) == conn.response = Undefined /\ conn.error = Undefined /\ ~conn.aborted

C15_OneInFlight ==
  \A id \in RunIds :
    LET rn == RunOf(id) IN
    /\ Cardinality({k \in 1..Len(rn.conns) : InFlight(rn.conns[k])}) <= 1
    /\ \A k \in 1..(Len(rn.conns) - 1) : rn.conns[k].response # Undefined
    /\ rn.direct \/ Len(rn.sent) <= strategyCalls[id[1]]

\* A request that follows another is issued in the step in which the response
\* to the earlier one arrives, after the strategy was applied to it
C15_AfterTheResponse ==
  \A id \in RunIds :
    LET rn == RunOf(id) IN
    (IssuesRequest(id) /\ rn.sent # <<>>)
      => /\ rn.conns # <<>>
         /\ Len(rn.conns) = Len(rn.sent)
         /\ Last(rn.conns).response = Undefined
         /\ run'[id[1]][id[2]].conns[Len(rn.conns)].response # Undefined
         /\ strategyCalls'[id[1]] = strategyCalls[id[1]] + 1

\* C15: a run of followRedirectsWith has at most one request in flight; the
\* next request is issued only once the response to the one before has
\* arrived and the strategy has been applied to it.
C15_HopsAreSequential == [](C15_OneInFlight) /\ [][C15_AfterTheResponse]_vars

\* The first hop was answered and the second is in flight
C15_Witness ==
  \E id \in RunIds :
    LET rn == RunOf(id) IN
    /\ Len(rn.conns) = 2
    /\ rn.conns[1].response # Undefined
    /\ InFlight(rn.conns[2])

-----------------------------------------------------------------------------
(* Properties of once and buffer *)

\* The least element of a set of numbers
First(S) == CHOOSE i \in S : \A j \in S : i <= j

\* The emissions since run r started that its listeners wait for
Decisive(r) ==
  {i \in (futures[r].start + 1)..Len(emitted) :
     emitted[i].name \in {futures[r].event, "error"}}

\* How many listeners of run r the emitter carries under name
Owned(r, name) ==
  Cardinality({i \in 1..Len(listeners[name]) : listeners[name][i].owner = r})

\* C16: a run of once (event) (emitter) settles at most once and as the first
\* emission of the named event or of 'error' since it started decides: the
\* named event resolves it with the payload, 'error' rejects it with the error;
\* later emissions change nothing.
C16_FirstEmissionDecides ==
  \A r \in Runs :
    futures[r].kind = "once" =>
      /\ futures[r].settles <= 1
      /\ IF futures[r].pc = "cancelled"
         THEN \A i \in Decisive(r) : i > futures[r].stop
         ELSE IF Decisive(r) = {}
         THEN futures[r].pc = "pending" /\ futures[r].settles = 0
         ELSE LET e == emitted[First(Decisive(r))]
              IN /\ futures[r].pc = IF e.name = "error" THEN "rejected" ELSE "resolved"
                 /\ futures[r].result = Just(e.payload)
                 /\ futures[r].settles = 1

\* A run resolved by the named event, after which the emitter emitted 'error'
\* and the named event again with another payload
C16_Witness ==
  \E r \in Runs :
    /\ futures[r].pc = "resolved"
    /\ futures[r].result = Just("42")
    /\ Len(emitted) = 3
    /\ emitted[2].name = "error"
    /\ emitted[3] = [name |-> futures[r].event, payload |-> "43"]
    /\ futures[r].start = 0

\* C17: while a run of once (event) (emitter) is pending the emitter carries
\* exactly one listener of that run on the named event and one on 'error';
\* after the run resolved, rejected or was cancelled it carries none of them.
C17_ListenersOfARun ==
  \A r \in Runs :
    futures[r].kind = "once" =>
      \A name \in Events :
        Owned(r, name) =
          IF futures[r].pc = "pending" /\ name \in {futures[r].event, "error"}
          THEN 1 ELSE 0

\* One run has rejected, the other was cancelled, and the emitter is bare
C17_Witness ==
  /\ futures["r1"].pc = "rejected"
  /\ futures["r2"].pc = "cancelled"
  /\ \A name \in Events : listeners[name] = <<>>

C18_NeverInvoked ==
  \A r \in Runs :
    (futures[r].kind = "once" /\ futures[r].pc = "cancelled")
      => /\ futures[r].settles = 0
         /\ futures[r].result = Undefined
         /\ futures[r].calls = 0

C18_StaysCancelled ==
  \A r \in Runs :
    (futures[r].kind = "once" /\ futures[r].pc = "cancelled")
      => futures'[r] = futures[r]

\* C18: a run of once (event) (emitter) that was cancelled before the named
\* event or 'error' was emitted never settles, and none of its listeners runs,
\* whatever the emitter emits afterwards.
C18_CancelledOnceIsSilent == [](C18_NeverInvoked) /\ [][C18_StaysCancelled]_vars

\* A cancelled run after whose cancellation the emitter emitted its event and
\* 'error'
C18_Witness ==
  \E r \in Runs :
    /\ futures[r].kind = "once"
    /\ futures[r].pc = "cancelled"
    /\ \E i, j \in (futures[r].stop + 1)..Len(emitted) :
         emitted[i].name = futures[r].event /\ emitted[j].name = "error"

\* The emissions of 'end' and 'error' since run r started
Closing(r) ==
  {i \in (futures[r].start + 1)..Len(emitted) : emitted[i].name \in {"end", "error"}}

\* The chunks of the 'data' emissions after emission a and before emission b
DataBetween(a, b) ==
  LET data == SelectSeq(SubSeq(emitted, a + 1, b - 1), LAMBDA e : e.name = "data")
  IN [i \in 1..Len(data) |-> data[i].payload]

\* C19: a run of buffer (stream) whose stream emits 'end' with no 'error'
\* before it resolves with the chunks of the 'data' events between its start
\* and that 'end', each once, in the order of their arrival.
C19_ChunksInOrder ==
  \A r \in Runs :
    futures[r].kind = "buffer" =>
      /\ futures[r].pc = "resolved"
           => /\ Closing(r) # {}
              /\ emitted[First(Closing(r))].name = "end"
              /\ futures[r].result = Just(DataBetween(futures[r].start, First(Closing(r))))
              /\ futures[r].settles = 1
      /\ (/\ Closing(r) # {}
          /\ emitted[First(Closing(r))].name = "end"
          /\ futures[r].pc # "cancelled")
           => futures[r].pc = "resolved"

\* A run that saw both chunks and a run that started after the first chunk
C19_Witness ==
  /\ futures["r1"].pc = "resolved"
  /\ futures["r1"].result = Just(<<"hello", "world">>)
  /\ futures["r2"].pc = "resolved"
  /\ futures["r2"].result = Just(<<"world">>)

\* C20: after a run of buffer (stream) was cancelled the stream carries none
\* of the 'data', 'end' and 'error' listeners of that run.
C20_CancelRemovesEveryListener ==
  \A r \in Runs :
    (futures[r].kind = "buffer" /\ futures[r].pc = "cancelled")
      => \A name \in {"data", "end", "error"} : Owned(r, name) = 0

\* What does hold after the cancellation: the listeners of 'data' and 'end'
\* are gone, the one of 'error' stays until the stream emits 'error'
C20_ErrorListenerStays ==
  \A r \in Runs :
    (futures[r].kind = "buffer" /\ futures[r].pc = "cancelled")
      => /\ Owned(r, "data") = 0
         /\ Owned(r, "end") = 0
         /\ Owned(r, "error") =
              IF \E i \in (futures[r].start + 1)..Len(emitted) : emitted[i].name = "error"
              THEN 0 ELSE 1

-----------------------------------------------------------------------------
(* Properties of the handlers *)

\* The handler fn (a name) was applied by itself
Ran(handler) == applied.fn = "handler" /\ applied.f = handler

\* The methods that count as GET, as they may be spelled in the options
SpelledGet == {Undefined, Just("GET"), Just("get")}

\* The URL a redirect leads to: the Location resolved against the URL of the
\* original request, or that URL as it is when there is no Location
Redirected(response) ==
  IF response.message.location = Undefined
  THEN response.request.url
  ELSE Resolve(response.message.location[1], response.request.url)

\* C23: matchStatus (d) (t) (r) applies exactly one handler, once: the one t
\* has for the status code of r, else d; when d is itself a dispatcher over a
\* table t1 with default d1, the one of t, else the one of t1, else d1.
C23_ExactlyOneHandler ==
  applied.fn = "matchStatus" =>
    LET code == applied.response.message.statusCode
        t1 == CASE applied.f = "defaultRedirectionPolicy" -> defaultRedirectionTable
                [] applied.f = "aggressiveRedirectionPolicy" -> aggressiveRedirectionTable
                [] OTHER -> <<>>
        d1 == IF applied.f \in {"defaultRedirectionPolicy", "aggressiveRedirectionPolicy"}
              THEN "Response.request"
              ELSE applied.f
        chosen == IF code \in DOMAIN applied.fs THEN applied.fs[code]
                  ELSE IF code \in DOMAIN t1 THEN t1[code]
                  ELSE d1
    IN /\ applied.called = <<chosen>>
       /\ applied.result = Apply(chosen, applied.response)

\* A layered dispatcher was applied to a status code that only the inner table handles
C23_Witness ==
  /\ applied.fn = "matchStatus"
  /\ applied.f = "defaultRedirectionPolicy"
  /\ applied.fs = (300 :> "echoStrategy") @@ (301 :> "redirectUsingGetMethod")
  /\ applied.response.message.statusCode = 305
  /\ applied.response.message.location = Just(RelRef("/b"))
  /\ applied.response.request = PostA
  /\ applied.called = <<"redirectAnyRequest">>
  /\ applied.result = Request(PostA.options, UrlB, PostA.body)

\* C24: acceptStatus (code) (response) resolves with the response when its
\* status code is code, and otherwise rejects with the response.
C24_AcceptsOnlyTheCode ==
  applied.fn = "acceptStatus" =>
    applied.result =
      [pc |-> IF applied.response.message.statusCode = applied.code
              THEN "resolved" ELSE "rejected",
       value |-> applied.response]

C24_Witness ==
  /\ applied.fn = "acceptStatus"
  /\ applied.code = 200
  /\ applied.response.message.statusCode = 201
  /\ applied.result.pc = "rejected"
  /\ applied.result.value = applied.response

\* C25: redirectAnyRequest keeps the method and the body of the original
\* request; the URL is the Location resolved against the original URL, and
\* the original URL as it is when there is no Location.
C25_SameMethodAndBodyNewUrl ==
  Ran("redirectAnyRequest") =>
    LET original == applied.response.request
    IN /\ applied.result.options.method = original.options.method
       /\ applied.result.body = original.body
       /\ applied.result.url = Redirected(applied.response)
       /\ applied.response.message.location = Undefined =>
            applied.result.url = original.url

C25_Witness ==
  /\ Ran("redirectAnyRequest")
  /\ applied.response.request = PostAsyncA
  /\ applied.response.message.location = Just(RelRef("/b"))
  /\ applied.result.url = UrlB
  /\ applied.result.body.id = "b2"
  /\ applied.result.options.method = Just("post")

\* The headers of a request as an object
HeadersOf(request) ==
  IF request.options.headers = Undefined THEN EmptyHeaders ELSE request.options.headers[1]

\* The spellings of the cookie header
SpelledCookie == {"cookie", "Cookie"}

\* C26: a request that redirectAnyRequest, redirectIfGetMethod or
\* redirectUsingGetMethod returns for another host than the one of the
\* original request carries no cookie header; for the same host the headers
\* of the original request are kept.
C26_ConfidentialHeadersStayHome ==
  (Ran("redirectAnyRequest") \/ Ran("redirectIfGetMethod") \/ Ran("redirectUsingGetMethod")) =>
    LET original == applied.response.request
    IN IF applied.result.url.host # original.url.host
       THEN DOMAIN HeadersOf(applied.result) \cap SpelledCookie = {}
       ELSE HeadersOf(applied.result) = HeadersOf(original)

\* What the code does instead: the headers of the original request are passed
\* on whatever the host of the new URL
C26_HeadersAlwaysKept ==
  (Ran("redirectAnyRequest") \/ Ran("redirectIfGetMethod") \/ Ran("redirectUsingGetMethod")) =>
    applied.result.options.headers = applied.response.request.options.headers

\* A cookie was sent on to another host
C26_CookieLeaves ==
  /\ Ran("redirectAnyRequest")
  /\ applied.response.request = CookieGetA
  /\ applied.response.message.location = Just(Ref("http:", "h2", "/b"))
  /\ applied.result.url.host = "h2"
  /\ "Cookie" \in DOMAIN HeadersOf(applied.result)

\* C27: redirectIfGetMethod is redirectAnyRequest when the method of the
\* original request is GET in any spelling or absent; otherwise it returns
\* the original request itself.
C27_RedirectsOnlyGet ==
  Ran("redirectIfGetMethod") =>
    LET original == applied.response.request
    IN IF original.options.method \in SpelledGet
       THEN /\ applied.result = redirectAnyRequest(applied.response)
            /\ applied.result.url = Redirected(applied.response)
       ELSE applied.result = original

\* A GET spelled in lower case was redirected
C27_Witness ==
  /\ Ran("redirectIfGetMethod")
  /\ applied.response.message.location = Just(RelRef("/b"))
  /\ applied.response.request = GetBare
  /\ applied.result.url = UrlB

\* A post was not
C27_PostWitness ==
  /\ Ran("redirectIfGetMethod")
  /\ applied.response.message.location = Just(RelRef("/b"))
  /\ applied.response.request = PostAsyncA
  /\ applied.result = PostAsyncA

\* C28: redirectUsingGetMethod returns a request with method GET, the shared
\* empty stream as its body, the other options of the original request, and
\* the Location resolved against the original URL; the original request is
\* as it was.
C28_GetWithoutBody ==
  Ran("redirectUsingGetMethod") =>
    LET original == applied.response.request
    IN /\ applied.result.options = [original.options EXCEPT !.method = Just("GET")]
       /\ applied.result.body = emptyStream
       /\ applied.result.url = Redirected(applied.response)
       /\ \E c \in Calls : applied.response = input[c].response

C28_Witness ==
  /\ Ran("redirectUsingGetMethod")
  /\ applied.response.request = ConditionalPostA
  /\ applied.response.message.location = Just(RelRef("/b"))
  /\ applied.result.options.method = Just("GET")
  /\ applied.result.options.headers = ConditionalPostA.options.headers
  /\ applied.result.body.id = "emptyStream"
  /\ applied.result.url = UrlB

\* The conditional headers, as they may be spelled
SpelledConditions ==
  {"if-match", "If-Match", "if-modified-since", "IF-MODIFIED-SINCE",
   "if-none-match", "If-None-Match", "if-unmodified-since", "If-Unmodified-Since"}

\* C29: for a GET, retryWithoutCondition returns a request to the same URL
\* with the same body and with the headers of the original request except
\* the conditional ones in any spelling; for another method it returns the
\* original request itself.
C29_DropsConditionsOfGet ==
  Ran("retryWithoutCondition") =>
    LET original == applied.response.request
        kept == DOMAIN HeadersOf(original) \ SpelledConditions
    IN IF original.options.method \in SpelledGet
       THEN /\ applied.result.url = original.url
            /\ applied.result.body = original.body
            /\ DOMAIN HeadersOf(applied.result) = kept
            /\ \A name \in kept : HeadersOf(applied.result)[name] = HeadersOf(original)[name]
       ELSE applied.result = original

C29_Witness ==
  /\ Ran("retryWithoutCondition")
  /\ applied.response.request = MixedConditionalGetB
  /\ applied.result.options.headers = Just(("Cookie" :> "yum"))
  /\ applied.result.url = UrlB

C29_PostWitness ==
  /\ Ran("retryWithoutCondition")
  /\ applied.response.request = ConditionalPostA
  /\ applied.result = ConditionalPostA

\* C30: the default policy applies redirectIfGetMethod to 301, 302 and 307,
\* redirectUsingGetMethod to 303 and redirectAnyRequest to 305; the aggressive
\* policy applies redirectAnyRequest to 301, 302, 305 and 307,
\* redirectUsingGetMethod to 303 and retryWithoutCondition to 304; for any
\* other status code either returns the request of the response.
C30_PolicyTables ==
  LET code == applied.response.message.statusCode
      byDefault == CASE code \in {301, 302, 307} -> "redirectIfGetMethod"
                     [] code = 303 -> "redirectUsingGetMethod"
                     [] code = 305 -> "redirectAnyRequest"
                     [] OTHER -> "Response.request"
      aggressively == CASE code \in {301, 302, 305, 307} -> "redirectAnyRequest"
                        [] code = 303 -> "redirectUsingGetMethod"
                        [] code = 304 -> "retryWithoutCondition"
                        [] OTHER -> "Response.request"
  IN /\ Ran("defaultRedirectionPolicy") =>
          /\ applied.called = <<byDefault>>
          /\ applied.result = Apply(byDefault, applied.response)
          /\ byDefault = "Response.request" => applied.result = applied.response.request
     /\ Ran("aggressiveRedirectionPolicy") =>
          /\ applied.called = <<aggressively>>
          /\ applied.result = Apply(aggressively, applied.response)
          /\ aggressively = "Response.request" => applied.result = applied.response.request

\* A 304 to a conditional GET under the default policy: the request comes back as it is
C30_Witness ==
  /\ Ran("defaultRedirectionPolicy")
  /\ applied.response.message.statusCode = 304
  /\ applied.response.request = ConditionalGetA
  /\ applied.result = ConditionalGetA

C30_AggressiveWitness ==
  /\ Ran("aggressiveRedirectionPolicy")
  /\ applied.response.message.statusCode = 304
  /\ applied.response.request = ConditionalGetA
  /\ applied.result.options.headers = Just(("Accept" :> "y"))

-----------------------------------------------------------------------------
(* Properties of bufferString and bufferMessage *)

\* The run buffers with a charset that names no encoding
UnknownCharset(r) ==
  \/ /\ futures[r].via \in {"bufferString", "bufferMessage", "bufferResponse"}
     /\ futures[r].arg = "lalalala"
  \/ /\ futures[r].via \in {"autoBufferMessage", "autoBufferResponse"}
     /\ futures[r].arg = Just("text/plain; charset=lalalala")

\* The stream of the run has ended and the run has all its chunks
Ended(r) == futures[r].pc = "resolved"

\* The chunks of the run hold at least one byte
HasBytes(r) == \E i \in 1..Len(futures[r].chunks) : futures[r].chunks[i] # <<>>

\* C21: bufferString with a charset that names no encoding never resolves,
\* and once the stream has ended, whatever its chunks, it is rejected with
\* the Error of the codec.
C21_UnknownCharsetNeverResolves ==
  \A r \in Runs :
    (futures[r].via = "bufferString" /\ UnknownCharset(r)) =>
      /\ futures[r].out.pc # "resolved"
      /\ Ended(r) => /\ futures[r].out.pc = "rejected"
                     /\ futures[r].out.value = Error("Unknown encoding: lalalala")

\* What the code does instead: it is rejected when the stream had at least
\* one byte, and resolved with the empty string when it had none
C21_ResolvesWhenEmpty ==
  \A r \in Runs :
    (futures[r].via = "bufferString" /\ UnknownCharset(r) /\ Ended(r)) =>
      IF HasBytes(r)
      THEN /\ futures[r].out.pc = "rejected"
           /\ futures[r].out.value = Error("Unknown encoding: lalalala")
      ELSE /\ futures[r].out.pc = "resolved"
           /\ futures[r].out.value = ""

\* A stream ended after an empty chunk, and bufferString ('lalalala') resolved
C21_EmptyStreamResolves ==
  /\ futures["r2"].via = "bufferString"
  /\ futures["r2"].arg = "lalalala"
  /\ futures["r2"].chunks = <<<<>>>>
  /\ futures["r2"].out = [pc |-> "resolved", value |-> ""]

\* C22: when the chunks cannot be decoded, bufferMessage, bufferResponse,
\* autoBufferMessage and autoBufferResponse reject with an Error whose
\* message is 'Failed to buffer response: ' and the message of the codec,
\* and bufferString with an Error that has the message of the codec alone.
C22_PrefixOnlyForResponses ==
  \A r \in Runs :
    /\ (Ended(r) /\ HasBytes(r) /\ UnknownCharset(r)) => futures[r].out.pc = "rejected"
    /\ (Ended(r) /\ futures[r].out.pc = "rejected") =>
         futures[r].out.value =
           Error(IF futures[r].via = "bufferString"
                 THEN "Unknown encoding: lalalala"
                 ELSE "Failed to buffer response: Unknown encoding: lalalala")

\* One stream, buffered as a response and as a raw stream: both fail to decode
C22_Witness ==
  /\ futures["r1"].via = "autoBufferResponse"
  /\ futures["r1"].chunks = <<<<104, 105>>, <<33>>>>
  /\ futures["r1"].out =
       reject(Error("Failed to buffer response: Unknown encoding: lalalala"))
  /\ futures["r2"].via = "bufferString"
  /\ futures["r2"].out = reject(Error("Unknown encoding: lalalala"))

\* The same stream decodes with the charset of its content type
C22_DecodedWitness ==
  /\ futures["r1"].via = "autoBufferMessage"
  /\ futures["r1"].arg = Just("text/plain; charset=hex")
  /\ futures["r1"].chunks = <<<<104, 105>>, <<33>>>>
  /\ futures["r1"].out = resolve("686921")

-----------------------------------------------------------------------------
(* Properties of followRedirects *)

\* The cleaned method of a request
MethodOf(request) == cleanRequestOptions(request).method

\* The request the default policy derives from the response is the original
\* request over again: the Location resolves to the URL of the original
\* request as it is spelled, and the method and the body stay as they are
\* (on 303 only for a GET whose body is the shared empty stream)
Repeats(response) ==
  LET original == response.request
      status == response.message.statusCode
  IN /\ Redirected(response) = original.url
     /\ \/ MethodOf(original) = "GET" /\ status \in {301, 302, 305, 307}
        \/ MethodOf(original) = "GET" /\ status = 303 /\ original.body.id = emptyStream.id
        \/ MethodOf(original) = "POST" /\ status = 305

\* What followRedirects (1) does with a response that carries a Location, once
\* its Future is forked.  With anyLocation the statement is made for every
\* Location; otherwise a response whose redirect repeats the original request
\* is excepted, and for it no request is issued and the response is returned.
FollowsOnce(anyLocation) ==
  \A id \in RunIds :
    LET rn == RunOf(id)
        response == input[id[1]].response
        original == response.request
        status == response.message.statusCode
        target == Redirected(response)
        OneRequest ==
          /\ Len(rn.sent) = 1
          /\ rn.sent[1].url = target
          /\ rn.pc = "resolved" =>
               /\ Len(rn.conns) = 1
               /\ rn.conns[1].request = rn.sent[1]
               /\ rn.conns[1].response # Undefined
               /\ rn.result = Just(Response(rn.sent[1], rn.conns[1].response[1]))
        NoRequest ==
          /\ rn.sent = <<>>
          /\ rn.pc = "resolved"
          /\ rn.result = Just(response)
    IN (/\ rn.pc # "unforked"
        /\ input[id[1]].max = 1
        /\ response.message.location # Undefined) =>
       IF ~anyLocation /\ Repeats(response)
       THEN NoRequest
       ELSE
         /\ (MethodOf(original) = "GET" /\ status \in {301, 302, 303, 305, 307}) =>
              /\ OneRequest
              /\ MethodOf(rn.sent[1]) = "GET"
         /\ (MethodOf(original) = "POST" /\ status \in {301, 302, 307}) => NoRequest
         /\ (MethodOf(original) = "POST" /\ status = 303) =>
              /\ OneRequest
              /\ MethodOf(rn.sent[1]) = "GET"
              /\ rn.sent[1].body = emptyStream
         /\ (MethodOf(original) = "POST" /\ status = 305) =>
              /\ OneRequest
              /\ MethodOf(rn.sent[1]) = "POST"
              /\ rn.sent[1].body = original.body

\* C31 as stated: followRedirects (1) on a response with a Location issues
\* one GET after a GET answered 301, 302, 303, 305 or 307 and returns its
\* response; after a POST it issues nothing on 301, 302 and 307, one GET
\* without body on 303, and one POST with the original body on 305.
C31_FollowsAnyLocation == FollowsOnce(TRUE)

\* C31, amended: the same, unless the redirected request is the original
\* request over again (same URL, method and body); then followRedirects (1)
\* issues no request and returns the original response.
C31_FollowsNewLocation == FollowsOnce(FALSE)

\* A POST answered 305 with Location /b: the body was sent again to /b and
\* the answer to that request came back
C31_Witness ==
  /\ input["c1"].max = 1
  /\ input["c1"].response = Response(PostA, Message(305, Just(RelRef("/b"))))
  /\ run["c1"]["r1"].pc = "resolved"
  /\ Len(run["c1"]["r1"].sent) = 1
  /\ run["c1"]["r1"].sent[1] = Request(PostA.options, UrlB, PostA.body)
  /\ run["c1"]["r1"].result[1].request.url = UrlB

\* A GET to /a answered 301 with Location /a: nothing is issued
C31_SelfLocation ==
  /\ input["c1"].max = 1
  /\ input["c1"].response = Response(GetA, Message(301, Just(RelRef("/a"))))
  /\ run["c1"]["r1"].pc = "resolved"
  /\ run["c1"]["r1"].sent = <<>>
  /\ run["c1"]["r1"].result = Just(input["c1"].response)

\* A POST to /a answered 303 with Location /a: one GET without body to /a
C31_SelfLocationSeeOther ==
  /\ input["c1"].max = 1
  /\ input["c1"].response = Response(PostA, Message(303, Just(RelRef("/a"))))
  /\ run["c1"]["r1"].pc = "resolved"
  /\ Len(run["c1"]["r1"].sent) = 1
  /\ run["c1"]["r1"].sent[1] = Request([PostA.options EXCEPT !.method = Just("GET")],
                                       UrlA, emptyStream)

\* A GET to /b with a body of its own answered 303 with Location /b: a GET
\* with the shared empty body is not the original request and is issued
C31_SelfLocationOwnBody ==
  /\ input["c1"].max = 1
  /\ input["c1"].response = Response(GetUnreadable, Message(303, Just(RelRef("/b"))))
  /\ Len(run["c1"]["r1"].sent) = 1
  /\ run["c1"]["r1"].sent[1].body = emptyStream
  /\ run["c1"]["r1"].sent[1].url = UrlB

\* C32: for a response whose status code the default policy has no entry
\* for, followRedirects (max) resolves with that response and issues no
\* request, whatever max and whether or not there is a Location.
C32_UnhandledStatusResolves ==
  \A id \in RunIds :
    LET rn == RunOf(id)
        response == input[id[1]].response
    IN (rn.pc # "unforked" /\ response.message.statusCode \notin {301, 302, 303, 305, 307}) =>
         /\ rn.pc = "resolved"
         /\ rn.result = Just(response)
         /\ rn.settles = 1
         /\ rn.sent = <<>>
         /\ rn.conns = <<>>

\* A conditional GET answered 304 with a Location, two hops allowed
C32_Witness ==
  /\ input["c1"].max = 2
  /\ input["c1"].response = Response(ConditionalGetA, Message(304, Just(RelRef("/b"))))
  /\ run["c1"]["r1"].pc = "resolved"
  /\ run["c1"]["r1"].result = Just(input["c1"].response)
  /\ run["c1"]["r1"].sent = <<>>

\* A POST answered 404 with a Location
C32_NotFoundWitness ==
  /\ input["c1"].max = 1
  /\ input["c1"].response = Response(PostA, Message(404, Just(RelRef("/b"))))
  /\ run["c1"]["r1"].pc = "resolved"
  /\ run["c1"]["r1"].sent = <<>>

-----------------------------------------------------------------------------
(* Properties of cleanRequestOptions *)

\* The fields of the record cleanRequestOptions returns
CleanedFields ==
  {"agent", "createConnection", "defaultPort", "family", "headers",
   "insecureHTTPParser", "localAddress", "lookup", "maxHeaderSize", "method",
   "setHost", "socketPath", "timeout"}

\* C33: cleanRequestOptions returns a record of a fixed set of fields, with
\* the method in upper case or GET when absent, the headers or an empty map,
\* maxHeaderSize or 16384, setHost true unless it was given as false,
\* insecureHTTPParser true only when it was given as true, and defaultPort
\* from the agent when it was not given.
C33_CleanedOptions ==
  applied.fn = "cleanRequestOptions" =>
    LET options == applied.request.options
        cleaned == applied.result
    IN /\ DOMAIN cleaned = CleanedFields
       /\ cleaned.method = CASE options.method \in {Undefined, Just("")} -> "GET"
                             [] options.method = Just("get") -> "GET"
                             [] options.method = Just("POST") -> "POST"
                             [] options.method = Just("put") -> "PUT"
       /\ cleaned.headers = IF options.headers = Undefined
                            THEN [n \in {} |-> ""]
                            ELSE options.headers[1]
       /\ cleaned.maxHeaderSize = IF options.maxHeaderSize = Just(8192) THEN 8192 ELSE 16384
       /\ cleaned.setHost = (options.setHost # Just("false"))
       /\ cleaned.insecureHTTPParser = (options.insecureHTTPParser = Just("true"))
       /\ cleaned.defaultPort =
            IF options.defaultPort = Just(8080) THEN Just(8080)
            ELSE IF options.agent = Undefined THEN Undefined ELSE Just(443)
       /\ cleaned.agent = options.agent
       /\ cleaned.timeout = options.timeout

\* Options with a method in lower case, setHost null, insecureHTTPParser 1,
\* no maxHeaderSize and a port that only the agent names
C33_Witness ==
  /\ applied.fn = "cleanRequestOptions"
  /\ applied.request.options.method = Just("get")
  /\ applied.request.options.headers = Undefined
  /\ applied.request.options.setHost = Just("null")
  /\ applied.request.options.insecureHTTPParser = Just("1")
  /\ applied.request.options.maxHeaderSize = Just(0)
  /\ applied.request.options.defaultPort = Undefined
  /\ applied.request.options.agent # Undefined
  /\ applied.result.method = "GET"
  /\ applied.result.setHost
  /\ ~applied.result.insecureHTTPParser
  /\ applied.result.maxHeaderSize = 16384
  /\ applied.result.defaultPort = Just(443)

-----------------------------------------------------------------------------
(* Properties of immediate *)

C34_Outcomes ==
  \A r \in Runs :
    /\ futures[r].pc # "rejected"
    /\ futures[r].settles <= 1
    /\ futures[r].pc = "cancelled" =>
         /\ futures[r].job = "cleared"
         /\ futures[r].calls = 0
         /\ futures[r].settles = 0
         /\ futures[r].result = Undefined
    /\ futures[r].pc = "resolved" =>
         /\ futures[r].settles = 1
         /\ futures[r].result = futures[r].arg

C34_StaysCancelled ==
  \A r \in Runs : futures[r].pc = "cancelled" => futures'[r] = futures[r]

\* C34: a run of immediate (x) that is cancelled before its job has run
\* never settles, because the job is unscheduled; a run that is not cancelled
\* resolves exactly once with x.
C34_CancelUnschedules ==
  /\ [](C34_Outcomes)
  /\ [][C34_StaysCancelled]_vars
  /\ \A r \in Runs :
       (futures[r].pc = "pending") ~> (futures[r].pc \in {"resolved", "cancelled"})

\* One run was cancelled in time, the other resolved with its value
C34_Witness ==
  /\ futures["r1"].pc = "cancelled"
  /\ futures["r1"].arg = Just("did run")
  /\ futures["r1"].job = "cleared"
  /\ futures["r2"].pc = "resolved"
  /\ futures["r2"].result = Just("results")

-----------------------------------------------------------------------------
(* Properties of requestsEquivalent *)

\* What cleaning makes of the options that differ among the sample requests
Normalised(request) ==
  LET options == request.options
  IN [method |-> CASE options.method \in {Undefined, Just("get"), Just("GET")} -> "GET"
                   [] options.method \in {Just("post"), Just("POST")} -> "POST"
                   [] OTHER -> "PUT",
      headers |-> HeadersOf(request),
      setHost |-> options.setHost # Just("false")]

\* C35: two requests are the same for the cycle check exactly when their
\* cleaned options are equal, their URLs are the same string and their bodies
\* are the same Future value: requests that differ in the spelling of the
\* method or in absent and empty headers are equivalent, and requests whose
\* bodies were built separately with the same content are not.
C35_EquivalentRequests ==
  applied.fn = "requestsEquivalent" =>
    /\ applied.result =
         (/\ Normalised(applied.left) = Normalised(applied.right)
          /\ applied.left.url = applied.right.url
          /\ applied.left.body.id = applied.right.body.id)
    /\ (/\ applied.left.options.method \in SpelledGet
        /\ applied.right.options.method \in SpelledGet
        /\ HeadersOf(applied.left) = HeadersOf(applied.right)
        /\ applied.left.options.setHost # Just("false")
        /\ applied.right.options.setHost # Just("false")
        /\ applied.left.url = applied.right.url
        /\ applied.left.body.id = applied.right.body.id) => applied.result
    /\ applied.left.body.id # applied.right.body.id => ~applied.result

\* A GET without options against a GET spelled out: equivalent
C35_Witness ==
  /\ applied.fn = "requestsEquivalent"
  /\ applied.left = GetA
  /\ applied.right.options.method = Just("GET")
  /\ applied.right.options.headers = Just(EmptyHeaders)
  /\ applied.result

\* Two POSTs whose bodies have the same content but are two Futures: not equivalent
C35_TwinBodiesWitness ==
  /\ applied.fn = "requestsEquivalent"
  /\ applied.left = PostA
  /\ applied.right = Request(PostA.options, UrlA, Body("b8", "test", "sync"))
  /\ ~applied.result

-----------------------------------------------------------------------------
(* Properties of the seen history *)

\* C36: in a single run no request issued by followRedirectsWith is
\* equivalent to the request of the initial response or to a request issued
\* earlier in that run: the cycle check scans the whole seen history.
C36_NoRequestRepeats ==
  \A id \in RunIds :
    LET rn == RunOf(id) IN
    ~rn.direct =>
      \A i \in 1..Len(rn.sent) :
        /\ ~requestsEquivalent(input[id[1]].response.request, rn.sent[i])
        /\ \A j \in 1..(i - 1) : ~requestsEquivalent(rn.sent[j], rn.sent[i])

\* A run that issued one request, to another URL, and resolved with its
\* response because the strategy led back to the request of the initial
\* response, which is not the latest entry of seen
C36_Witness ==
  \E id \in RunIds :
    LET rn == RunOf(id)
        first == input[id[1]].response.request
    IN /\ rn.pc = "resolved"
       /\ input[id[1]].max >= 2
       /\ Len(rn.sent) = 1
       /\ rn.result[1].request = rn.sent[1]
       /\ ~requestsEquivalent(first, rn.sent[1])
       /\ requestsEquivalent(first, Apply(input[id[1]].strategy, rn.result[1]))

\* A run that issued two different requests
C36_TwoHopsWitness ==
  \E id \in RunIds :
    /\ Len(RunOf(id).sent) = 2
    /\ RunOf(id).sent[1].url # RunOf(id).sent[2].url

-----------------------------------------------------------------------------
(* Properties of buffer after it has settled *)

\* C37: after a run of buffer (stream) has settled, by 'end' or by 'error',
\* the stream carries no 'data', 'end' or 'error' listener of that run, so no
\* later event reaches a callback of the settled run.
C37_SettledRunLeavesNoListener ==
  \A r \in Runs :
    (futures[r].kind = "buffer" /\ futures[r].pc \in {"resolved", "rejected"})
      => \A name \in {"data", "end", "error"} : Owned(r, name) = 0

\* What does hold of a settled run: it has settled once, its listeners of
\* 'data' and 'end' are gone, and its listener of 'error' is gone exactly
\* when the stream has emitted 'error' since the run started
C37_OnlyErrorListenerStays ==
  \A r \in Runs :
    (futures[r].kind = "buffer" /\ futures[r].pc \in {"resolved", "rejected"})
      => /\ futures[r].settles = 1
         /\ Owned(r, "data") = 0
         /\ Owned(r, "end") = 0
         /\ Owned(r, "error") =
              IF \E i \in (futures[r].start + 1)..Len(emitted) : emitted[i].name = "error"
              THEN 0 ELSE 1

\* A run resolved by 'end' whose onError was called by a later 'error'
C37_LateErrorReachesOnError ==
  \E r \in Runs :
    /\ futures[r].kind = "buffer"
    /\ futures[r].pc = "resolved"
    /\ futures[r].start = 0
    /\ Len(emitted) = 2
    /\ emitted[1].name = "end"
    /\ emitted[2].name = "error"
    /\ futures[r].calls = 2
    /\ futures[r].settles = 1

-----------------------------------------------------------------------------
(* Properties of a failure in a later hop *)

\* C38: a run of followRedirectsWith that fails at hop k > 1 rejects with an
\* Error whose message is the message of the failure with the prefix
\* 'After redirect: ' put in front of it once; the enclosing hops do not wrap
\* it again.
C38_WrappedOnceAtLaterHop ==
  \A id \in RunIds :
    LET rn == RunOf(id) IN
    (rn.pc = "rejected" /\ ~rn.direct /\ Len(rn.sent) >= 2)
      => /\ rn.result = Just(AfterRedirect(FailureOf(rn)))
         /\ rn.result # Just(AfterRedirect(AfterRedirect(FailureOf(rn))))
         /\ rn.settles = 1

\* A run whose first hop was answered and whose second hop failed in the
\* transport
C38_Witness ==
  \E id \in RunIds :
    LET rn == RunOf(id) IN
    /\ rn.pc = "rejected"
    /\ Len(rn.sent) = 2
    /\ Len(rn.conns) = 2
    /\ rn.conns[1].response # Undefined
    /\ rn.conns[2].error = Just(TransportError("connect ECONNREFUSED", "ECONNREFUSED"))
    /\ rn.result = Just(Error("After redirect: connect ECONNREFUSED"))

-----------------------------------------------------------------------------
(* Properties of the aggressive policy against 304 *)

\* The request carries a conditional header, in any spelling
Conditional(request) == DOMAIN HeadersOf(request) \cap SpelledConditions # {}

C39_Requests ==
  \A id \in RunIds :
    LET rn == RunOf(id)
        given == input[id[1]].response
        first == given.request
        kept == DOMAIN HeadersOf(first) \ SpelledConditions
    IN rn.pc # "unforked" =>
         /\ rn.pc \in {"inflight", "resolved"}
         /\ Len(rn.sent) <= 1
         /\ (~Conditional(first) \/ input[id[1]].max < 1)
              => /\ rn.sent = <<>>
                 /\ rn.pc = "resolved"
                 /\ rn.result = Just(given)
         /\ (Conditional(first) /\ input[id[1]].max >= 1)
              => /\ Len(rn.sent) = 1
                 /\ cleanRequestOptions(rn.sent[1]).method = "GET"
                 /\ rn.sent[1].url = first.url
                 /\ rn.sent[1].body = first.body
                 /\ HeadersOf(rn.sent[1]) = [name \in kept |-> HeadersOf(first)[name]]
                 /\ rn.pc = "resolved"
                      => /\ rn.conns[1].response # Undefined
                         /\ rn.conns[1].response[1].statusCode = 304
                         /\ rn.result = Just(Response(rn.sent[1], rn.conns[1].response[1]))
                         /\ rn.settles = 1

C39_Resolves == run["c1"]["r1"].pc # "resolved" ~> run["c1"]["r1"].pc = "resolved"

\* C39: with the aggressive policy and a server that answers 304 to every
\* GET, a run issues no request when the original request has no conditional
\* header (or max < 1) and exactly one request, the original one without its
\* conditional headers, when it has some and max >= 1; the run resolves with
\* the last 304 response.
C39_OneRetryWithoutCondition == [](C39_Requests) /\ C39_Resolves

\* A conditional GET that was retried once without If-None-Match and resolved
\* with the 304 answer to the retry, one more hop being allowed
C39_Witness ==
  LET rn == run["c1"]["r1"] IN
  /\ input["c1"].max = 2
  /\ input["c1"].response.request = ConditionalGetA
  /\ rn.pc = "resolved"
  /\ Len(rn.sent) = 1
  /\ HeadersOf(rn.sent[1]) = ("Accept" :> "y")
  /\ rn.result[1].request = rn.sent[1]
  /\ rn.result[1].message.statusCode = 304

\* An unconditional GET answered 304: resolved with the answer as it is
C39_UnconditionalWitness ==
  LET rn == run["c1"]["r1"] IN
  /\ input["c1"].max = 2
  /\ input["c1"].response.request = CookieGetA
  /\ rn.pc = "resolved"
  /\ rn.sent = <<>>

-----------------------------------------------------------------------------
(* Properties of a cancellation with no request in flight *)

\* No request of the run is in flight: the run has settled, or its current
\* sendRequest still waits for the body Future and has not called lib.request
NothingInFlight(rn) == Settled(rn) \/ rn.pc = "body"

\* While nothing is in flight no connection of the run can report to it: a
\* run that waits for a body has opened one connection less than it has
\* forked bodies, and every connection it has opened was answered or failed
C40_NoConnectionPending ==
  \A id \in RunIds :
    LET rn == RunOf(id) IN
    rn.pc = "body" =>
      /\ Len(rn.conns) = rn.bodyRuns - 1
      /\ \A k \in 1..Len(rn.conns) :
           /\ ~rn.conns[k].listener
           /\ rn.conns[k].response # Undefined \/ rn.conns[k].error # Undefined

\* The cancel function of the run is called in this step while nothing is in
\* flight
CancelledWithNothingInFlight(id) ==
  /\ NothingInFlight(RunOf(id))
  /\ ~RunOf(id).cancelled
  /\ run'[id[1]][id[2]].cancelled

C40_Step ==
  \A id \in RunIds :
    LET rn == RunOf(id)
        after == run'[id[1]][id[2]]
    IN /\ CancelledWithNothingInFlight(id)
            => /\ after.conns = rn.conns
               /\ after.result = rn.result
               /\ after.settles = rn.settles
               /\ after.sent = rn.sent
               /\ after.bodyRuns = rn.bodyRuns
               /\ Settled(rn) => after.pc = rn.pc
               /\ ~Settled(after) => after.result = Undefined
               /\ UNCHANGED <<seen, strategyCalls, server, task>>
       /\ (rn.cancelled /\ (Settled(rn) \/ Len(rn.conns) < rn.bodyRuns))
            => /\ after.pc = rn.pc
               /\ after.result = rn.result
               /\ after.settles = rn.settles
               /\ after.sent = rn.sent
               /\ after.bodyRuns = rn.bodyRuns
               /\ Len(after.conns) = Len(rn.conns)
               /\ \A k \in 1..Len(rn.conns) : after.conns[k].aborted = rn.conns[k].aborted
               /\ UNCHANGED <<seen, strategyCalls>>

\* C40: calling the cancel function of a run of followRedirectsWith while no
\* request of it is in flight (the run has settled, or the request of the
\* current hop still waits for its body) aborts no connection and changes no
\* outcome, and afterwards the run opens no connection, issues no request,
\* applies the strategy no more and keeps its outcome.
C40_CancelWithNothingInFlight == [](C40_NoConnectionPending) /\ [][C40_Step]_vars

\* A run whose hop was waiting for the body of the request when it was
\* cancelled: the request was issued, no connection was opened for it
C40_Witness ==
  \E id \in RunIds :
    LET rn == RunOf(id) IN
    /\ rn.pc = "cancelled"
    /\ rn.cancelled
    /\ Len(rn.sent) = 1
    /\ rn.sent[1].body.mode = "async"
    /\ rn.bodyRuns = 1
    /\ rn.conns = <<>>
    /\ rn.settles = 0

\* A run that resolved after a hop and was cancelled afterwards: the request
\* of the hop was not aborted
C40_SettledWitness ==
  \E id \in RunIds :
    LET rn == RunOf(id) IN
    /\ rn.pc = "resolved"
    /\ rn.cancelled
    /\ Len(rn.conns) = 1
    /\ ~rn.conns[1].aborted
    /\ rn.result = Just(Response(rn.sent[1], rn.conns[1].response[1]))

\* A run that rejected and was cancelled afterwards
C40_RejectedWitness ==
  \E id \in RunIds :
    /\ RunOf(id).pc = "rejected"
    /\ RunOf(id).cancelled
    /\ RunOf(id).settles = 1

====
